---------------------------- MODULE Spec2Model ----------------------------
(***************************************************************************)
(* Form-schema builder (NewForm), list store, form view (Eform) and list   *)
(* browse (AdminWEbPart) of the admin web part.                            *)
(*                                                                         *)
(* Text is a sequence of one-character strings, so that trim(), the two    *)
(* replace() calls and Number() are computed character by character.       *)
(* Type tags ("text", "htmltable", ...) and object keys are TLA+ strings.  *)
(* A JavaScript object is a function from its keys to values; a property   *)
(* whose value is undefined is a key outside the domain.                   *)
(***************************************************************************)
EXTENDS Integers, Sequences, FiniteSets, TLC

VARIABLES
  \* NewForm.state
  formTitle, description, columns,
  newColumnName, newInternalName, newColumnType, required, order,
  options, newChoiceValue,
  tableName, tableRows, tableColumns, tableHeaders, currentHeaderInput,
  tableData, plainHtmlInput, tableColumnDefs,
  currentHeaderType, currentHeaderOptions, currentHeaderOptionInput,
  \* ConfigList: the items stored, and the add() calls not yet answered
  items, inFlight,
  \* Eform.state.config: <<>> is null, <<item>> the loaded item
  eformConfig,
  \* Eform.state.formData: the answers, a function from the names of the
  \* inputs to the values entered
  formData,
  \* AdminWEbPart.state, and the _loadItems calls not yet finished
  config, isViewDialogOpen, isEditDialogOpen, isNewFormDialogOpen,
  selectedItem, loads

formVars == <<formTitle, description>>
fieldVars == <<newColumnName, newInternalName, newColumnType, required, order>>
choiceVars == <<options, newChoiceValue>>
tableVars == <<tableName, tableRows, tableColumns, tableHeaders,
               currentHeaderInput, tableData, tableColumnDefs>>
headerVars == <<currentHeaderType, currentHeaderOptions, currentHeaderOptionInput>>
builderVars == <<formVars, columns, fieldVars, choiceVars, tableVars,
                 headerVars, plainHtmlInput>>
storeVars == <<items, inFlight>>
viewVars == <<eformConfig, formData>>
dialogVars == <<isViewDialogOpen, isEditDialogOpen, isNewFormDialogOpen>>
adminVars == <<config, dialogVars, selectedItem, loads>>
otherVars == <<storeVars, viewVars, adminVars>>
vars == <<builderVars, storeVars, viewVars, adminVars>>

-----------------------------------------------------------------------------
(* Bounds of the model *)

MaxFields == 3
MaxOptions == 2
MaxCellIndex == 2
MaxSchema == 2
MaxSaves == 1
MaxPending == 2
MaxItems == 2

\* fields added while every type's panel is filled
MaxPayload == 1

-----------------------------------------------------------------------------
(* JavaScript string primitives *)

Letters ==
  {"a","b","c","d","e","f","g","h","i","j","k","l","m",
   "n","o","p","q","r","s","t","u","v","w","x","y","z",
   "A","B","C","D","E","F","G","H","I","J","K","L","M",
   "N","O","P","Q","R","S","T","U","V","W","X","Y","Z"}

Digits == {"0","1","2","3","4","5","6","7","8","9"}

\* the characters \s matches and trim() removes, among those the model types
WhiteSpace == {" ", "\t", "\n"}

DigitVal(c) ==
  CASE c = "0" -> 0 [] c = "1" -> 1 [] c = "2" -> 2 [] c = "3" -> 3
    [] c = "4" -> 4 [] c = "5" -> 5 [] c = "6" -> 6 [] c = "7" -> 7
    [] c = "8" -> 8 [] c = "9" -> 9

RECURSIVE TrimStart(_)
TrimStart(s) ==
  IF s # <<>> /\ Head(s) \in WhiteSpace THEN TrimStart(Tail(s)) ELSE s

RECURSIVE TrimEnd(_)
TrimEnd(s) ==
  IF s # <<>> /\ s[Len(s)] \in WhiteSpace
  THEN TrimEnd(SubSeq(s, 1, Len(s) - 1))
  ELSE s

\* String.prototype.trim
Trim(s) == TrimEnd(TrimStart(s))

\* a string used as a condition: only the empty string is falsy
Truthy(s) == s # <<>>

RECURSIVE DigitsToNat(_)
DigitsToNat(s) ==
  IF s = <<>> THEN 0
  ELSE DigitsToNat(SubSeq(s, 1, Len(s) - 1)) * 10 + DigitVal(s[Len(s)])

\* Number(s) for the values a type="number" input hands over: the empty
\* string or an integer numeral with an optional sign
Number(s) ==
  LET t == Trim(s)
  IN IF t = <<>> THEN 0
     ELSE IF Head(t) = "-" THEN 0 - DigitsToNat(Tail(t))
     ELSE DigitsToNat(t)

\* s.replace(/\s+/g, ""): the scan finds the next run of white space, drops
\* the whole run and goes on after it
RECURSIVE ReplaceWhiteSpaceRuns(_)
ReplaceWhiteSpaceRuns(s) ==
  IF s = <<>> THEN <<>>
  ELSE IF Head(s) \in WhiteSpace THEN ReplaceWhiteSpaceRuns(TrimStart(s))
  ELSE <<Head(s)>> \o ReplaceWhiteSpaceRuns(Tail(s))

\* s.replace(/\W/g, ""), which keeps the underscore
RECURSIVE ReplaceNonWord(_)
ReplaceNonWord(s) ==
  IF s = <<>> THEN <<>>
  ELSE IF Head(s) \in Letters \cup Digits \cup {"_"}
       THEN <<Head(s)>> \o ReplaceNonWord(Tail(s))
       ELSE ReplaceNonWord(Tail(s))

\* s.replace(/[^a-zA-Z0-9]/g, "")
RECURSIVE ReplaceNonAlnum(_)
ReplaceNonAlnum(s) ==
  IF s = <<>> THEN <<>>
  ELSE IF Head(s) \in Letters \cup Digits
       THEN <<Head(s)>> \o ReplaceNonAlnum(Tail(s))
       ELSE ReplaceNonAlnum(Tail(s))

\* Array.prototype.filter((_, i) => i !== index), index counted from 0
FilterOutIndex(seq, index) ==
  [i \in 1..(Len(seq) - (IF index \in 0..(Len(seq) - 1) THEN 1 ELSE 0)) |->
     IF index \in 0..(Len(seq) - 1) /\ i > index THEN seq[i + 1] ELSE seq[i]]

RECURSIVE MathMax(_)
\* Math.max(...xs) of a non-empty list
MathMax(xs) ==
  IF Len(xs) = 1 THEN xs[1]
  ELSE LET m == MathMax(Tail(xs)) IN IF xs[1] > m THEN xs[1] ELSE m

-----------------------------------------------------------------------------
(* Field types *)

ChoiceTypes == {"dropdown", "radio", "checkbox"}

\* the keys of columnTypes, the options of the type dropdown
ColumnTypes ==
  {"text", "multiline", "number", "currency", "date", "dropdown", "radio",
   "checkbox", "yesno", "person", "htmltable", "htmlrender", "plainhtml"}

\* the keys of the header type dropdown of both table panels
HeaderTypes ==
  {"text", "multiline", "number", "currency", "date", "dropdown", "radio",
   "checkbox", "yesno"}

-----------------------------------------------------------------------------
(* Construction *)

\* a _loadItems call whose request the list has not answered yet
LoadSent == [reply |-> <<>>]

\* NewForm.state but for the schema's fields
InitBuilder ==
  /\ formTitle = <<>>
  /\ description = <<>>
  /\ newColumnName = <<>>
  /\ newInternalName = <<>>
  /\ newColumnType = "text"
  /\ required = FALSE
  /\ order = <<>>
  /\ options = <<>>
  /\ newChoiceValue = <<>>
  /\ tableName = <<>>
  /\ tableRows = <<>>
  /\ tableColumns = <<>>
  /\ tableHeaders = <<>>
  /\ currentHeaderInput = <<>>
  /\ tableData = <<>>
  /\ plainHtmlInput = <<>>
  /\ tableColumnDefs = <<>>
  /\ currentHeaderType = "text"
  /\ currentHeaderOptions = <<>>
  /\ currentHeaderOptionInput = <<>>

\* Eform.state: no item loaded, no answer entered
InitView ==
  /\ eformConfig = <<>>
  /\ formData = <<>>

\* AdminWEbPart.state, and the load componentDidMount has started
InitAdmin ==
  /\ config = <<>>
  /\ isViewDialogOpen = FALSE
  /\ isEditDialogOpen = FALSE
  /\ isNewFormDialogOpen = FALSE
  /\ selectedItem = <<>>
  /\ loads = <<LoadSent>>

\* everything but the schema's fields and the content of the list
InitParts ==
  /\ InitBuilder
  /\ InitView
  /\ InitAdmin
  /\ inFlight = <<>>

\* everything but the schema's fields, the list being empty
InitInput ==
  /\ InitParts
  /\ items = <<>>

Init ==
  /\ columns = <<>>
  /\ InitInput


-----------------------------------------------------------------------------
(* What render() shows and enables in the current state *)

ChoicePanelShown == newColumnType \in ChoiceTypes

PlainHtmlPanelShown == newColumnType = "plainhtml"

RenderPanelShown == newColumnType = "htmlrender"

TablePanelShown == newColumnType = "htmltable"

\* {this.state.tableColumns && Number(this.state.tableColumns) > 0 && ...}
HeaderSectionShown ==
  /\ RenderPanelShown \/ TablePanelShown
  /\ Truthy(tableColumns)
  /\ Number(tableColumns) > 0

HeaderOptionsShown == HeaderSectionShown /\ currentHeaderType \in ChoiceTypes

\* disabled= of the "Add Header" button, the same in both table panels
AddHeaderDisabled ==
  \/ Len(tableColumnDefs) >= Number(tableColumns)
  \/ currentHeaderType \in ChoiceTypes /\ Len(currentHeaderOptions) = 0

\* the "Enter cell data" grid of the HTML Render panel
CellGridShown ==
  /\ RenderPanelShown
  /\ Len(tableColumnDefs) > 0
  /\ Truthy(tableColumns)
  /\ Truthy(tableRows)
  /\ Number(tableColumns) > 0
  /\ Number(tableRows) > 0

\* colDef of cell column c of the cell grid; c counts from 0
BuilderCellDef(c) ==
  IF c + 1 \in 1..Len(tableColumnDefs) THEN tableColumnDefs[c + 1]
  ELSE [name |-> <<"C", "o", "l", " ">>, type |-> "text"]

\* the cell of the pending grid, the empty text where the grid has none
BuilderStoredCell(r, c) ==
  IF r + 1 \in 1..Len(tableData) /\ c + 1 \in 1..Len(tableData[r + 1])
  THEN tableData[r + 1][c + 1]
  ELSE <<>>

\* the value of the input without the default of the yesno columns
BuilderCellValueBlank(r, c) == BuilderStoredCell(r, c)

\* val of the input of cell (r, c) of the cell grid
BuilderCellValue(r, c) ==
  IF BuilderCellDef(c).type = "yesno" /\ ~Truthy(BuilderStoredCell(r, c))
  THEN <<"f", "a", "l", "s", "e">>
  ELSE BuilderStoredCell(r, c)

\* the button without the check of the pending options
AddColumnDisabledIgnoringOptions ==
  \/ ~Truthy(newColumnName)
  \/ /\ newColumnType = "htmltable"
     /\ \/ ~Truthy(tableName)
        \/ ~Truthy(tableRows)
        \/ ~Truthy(tableColumns)
        \/ Len(tableHeaders) # Number(tableColumns)

\* disabled= of the "Add Column" button
AddColumnDisabled ==
  \/ ~Truthy(newColumnName)
  \/ newColumnType \in ChoiceTypes /\ Len(options) = 0
  \/ /\ newColumnType = "htmltable"
     /\ \/ ~Truthy(tableName)
        \/ ~Truthy(tableRows)
        \/ ~Truthy(tableColumns)
        \/ Len(tableHeaders) # Number(tableColumns)

-----------------------------------------------------------------------------
(* onChange handlers of the text inputs, dropdowns and the checkbox *)

setFormTitle(v) ==
  /\ formTitle' = v
  /\ UNCHANGED <<description, columns, fieldVars, choiceVars, tableVars,
                 headerVars, plainHtmlInput, otherVars>>

setDescription(v) ==
  /\ description' = v
  /\ UNCHANGED <<formTitle, columns, fieldVars, choiceVars, tableVars,
                 headerVars, plainHtmlInput, otherVars>>

setNewColumnName(v) ==
  /\ newColumnName' = v
  /\ UNCHANGED <<formVars, columns, newInternalName, newColumnType, required,
                 order, choiceVars, tableVars, headerVars, plainHtmlInput,
                 otherVars>>

setNewInternalName(v) ==
  /\ newInternalName' = v
  /\ UNCHANGED <<formVars, columns, newColumnName, newColumnType, required,
                 order, choiceVars, tableVars, headerVars, plainHtmlInput,
                 otherVars>>

\* the type dropdown also empties the pending options
setNewColumnType(t) ==
  /\ newColumnType' = t
  /\ options' = <<>>
  /\ newChoiceValue' = <<>>
  /\ UNCHANGED <<formVars, columns, newColumnName, newInternalName, required,
                 order, tableVars, headerVars, plainHtmlInput, otherVars>>

setOrder(v) ==
  /\ order' = v
  /\ UNCHANGED <<formVars, columns, newColumnName, newInternalName,
                 newColumnType, required, choiceVars, tableVars, headerVars,
                 plainHtmlInput, otherVars>>

setRequired(b) ==
  /\ required' = b
  /\ UNCHANGED <<formVars, columns, newColumnName, newInternalName,
                 newColumnType, order, choiceVars, tableVars, headerVars,
                 plainHtmlInput, otherVars>>

setNewChoiceValue(v) ==
  /\ ChoicePanelShown
  /\ newChoiceValue' = v
  /\ UNCHANGED <<formVars, columns, fieldVars, options, tableVars, headerVars,
                 plainHtmlInput, otherVars>>

setPlainHtmlInput(v) ==
  /\ PlainHtmlPanelShown
  /\ plainHtmlInput' = v
  /\ UNCHANGED <<formVars, columns, fieldVars, choiceVars, tableVars,
                 headerVars, otherVars>>

setTableName(v) ==
  /\ RenderPanelShown \/ TablePanelShown
  /\ tableName' = v
  /\ UNCHANGED <<formVars, columns, fieldVars, choiceVars, tableRows,
                 tableColumns, tableHeaders, currentHeaderInput, tableData,
                 tableColumnDefs, headerVars, plainHtmlInput, otherVars>>

setTableRows(v) ==
  /\ RenderPanelShown \/ TablePanelShown
  /\ tableRows' = v
  /\ UNCHANGED <<formVars, columns, fieldVars, choiceVars, tableName,
                 tableColumns, tableHeaders, currentHeaderInput, tableData,
                 tableColumnDefs, headerVars, plainHtmlInput, otherVars>>

\* Array.from({ length: n }, () => "")
EmptyRow(n) == [i \in 1..n |-> <<>>]

\* "Number of Columns" of the HTML Render panel: drops the headers and
\* replaces the cell grid by an empty grid of tableRows rows
setTableColumnsRender(v) ==
  /\ RenderPanelShown
  /\ tableColumns' = v
  /\ tableHeaders' = <<>>
  /\ currentHeaderInput' = <<>>
  /\ currentHeaderType' = ""
  /\ currentHeaderOptions' = <<>>
  /\ currentHeaderOptionInput' = <<>>
  /\ tableColumnDefs' = <<>>
  /\ tableData' = IF Number(v) > 0 /\ Truthy(tableRows)
                  THEN [r \in 1..Number(tableRows) |-> EmptyRow(Number(v))]
                  ELSE <<>>
  /\ UNCHANGED <<formVars, columns, fieldVars, choiceVars, tableName,
                 tableRows, plainHtmlInput, otherVars>>

\* "Number of Columns" of the HTML Table panel: drops the headers, keeps the
\* cell grid
setTableColumnsTable(v) ==
  /\ TablePanelShown
  /\ tableColumns' = v
  /\ tableHeaders' = <<>>
  /\ currentHeaderInput' = <<>>
  /\ tableColumnDefs' = <<>>
  /\ currentHeaderType' = ""
  /\ currentHeaderOptions' = <<>>
  /\ currentHeaderOptionInput' = <<>>
  /\ UNCHANGED <<formVars, columns, fieldVars, choiceVars, tableName,
                 tableRows, tableData, plainHtmlInput, otherVars>>

setCurrentHeaderInput(v) ==
  /\ HeaderSectionShown
  /\ currentHeaderInput' = v
  /\ UNCHANGED <<formVars, columns, fieldVars, choiceVars, tableName,
                 tableRows, tableColumns, tableHeaders, tableData,
                 tableColumnDefs, headerVars, plainHtmlInput, otherVars>>

setCurrentHeaderType(t) ==
  /\ HeaderSectionShown
  /\ currentHeaderType' = t
  /\ currentHeaderOptions' = <<>>
  /\ currentHeaderOptionInput' = <<>>
  /\ UNCHANGED <<formVars, columns, fieldVars, choiceVars, tableVars,
                 plainHtmlInput, otherVars>>

setCurrentHeaderOptionInput(v) ==
  /\ HeaderOptionsShown
  /\ currentHeaderOptionInput' = v
  /\ UNCHANGED <<formVars, columns, fieldVars, choiceVars, tableVars,
                 currentHeaderType, currentHeaderOptions, plainHtmlInput,
                 otherVars>>

-----------------------------------------------------------------------------
(* Pending options, headers and cells *)

\* _addChoice storing the value as typed
addChoiceUntrimmed ==
  /\ ChoicePanelShown
  /\ IF Trim(newChoiceValue) = <<>>
     THEN UNCHANGED <<options, newChoiceValue>>
     ELSE /\ options' = Append(options, newChoiceValue)
          /\ newChoiceValue' = <<>>
  /\ UNCHANGED <<formVars, columns, fieldVars, tableVars, headerVars,
                 plainHtmlInput, otherVars>>

\* _addChoice, behind the "Add" button of the choice panel
addChoice ==
  /\ ChoicePanelShown
  /\ IF Trim(newChoiceValue) = <<>>
     THEN UNCHANGED <<options, newChoiceValue>>
     ELSE /\ options' = Append(options, Trim(newChoiceValue))
          /\ newChoiceValue' = <<>>
  /\ UNCHANGED <<formVars, columns, fieldVars, tableVars, headerVars,
                 plainHtmlInput, otherVars>>

\* the column definition built with the pending type as it is
HeaderDefKeepingEmptyType ==
  LET base == [name |-> Trim(currentHeaderInput), type |-> currentHeaderType]
  IN IF Len(currentHeaderOptions) > 0
     THEN base @@ [options |-> currentHeaderOptions]
     ELSE base

\* the column definition _addTableHeader builds
HeaderDef ==
  LET base == [name |-> Trim(currentHeaderInput),
               type |-> IF currentHeaderType # "" THEN currentHeaderType
                        ELSE "text"]
  IN IF Len(currentHeaderOptions) > 0
     THEN base @@ [options |-> currentHeaderOptions]
     ELSE base

\* _addTableHeader, behind the "Add Header" button
addTableHeader ==
  /\ HeaderSectionShown
  /\ ~AddHeaderDisabled
  /\ IF Trim(currentHeaderInput) = <<>>
     THEN UNCHANGED <<tableHeaders, tableColumnDefs, currentHeaderInput,
                      headerVars>>
     ELSE /\ tableHeaders' = Append(tableHeaders, Trim(currentHeaderInput))
          /\ tableColumnDefs' = Append(tableColumnDefs, HeaderDef)
          /\ currentHeaderInput' = <<>>
          /\ currentHeaderType' = "text"
          /\ currentHeaderOptions' = <<>>
          /\ currentHeaderOptionInput' = <<>>
  /\ UNCHANGED <<formVars, columns, fieldVars, choiceVars, tableName,
                 tableRows, tableColumns, tableData, plainHtmlInput,
                 otherVars>>

\* _removeTableHeader(index), behind the delete button of a listed definition
removeTableHeader(index) ==
  /\ HeaderSectionShown
  /\ index \in 0..(Len(tableColumnDefs) - 1)
  /\ tableHeaders' = FilterOutIndex(tableHeaders, index)
  /\ tableColumnDefs' = FilterOutIndex(tableColumnDefs, index)
  /\ UNCHANGED <<formVars, columns, fieldVars, choiceVars, tableName,
                 tableRows, tableColumns, currentHeaderInput, tableData,
                 headerVars, plainHtmlInput, otherVars>>

\* _addHeaderOption
addHeaderOption ==
  /\ HeaderOptionsShown
  /\ IF Trim(currentHeaderOptionInput) = <<>>
     THEN UNCHANGED <<currentHeaderOptions, currentHeaderOptionInput>>
     ELSE /\ currentHeaderOptions' =
               Append(currentHeaderOptions, Trim(currentHeaderOptionInput))
          /\ currentHeaderOptionInput' = <<>>
  /\ UNCHANGED <<formVars, columns, fieldVars, choiceVars, tableVars,
                 currentHeaderType, plainHtmlInput, otherVars>>

\* _removeHeaderOption(index)
removeHeaderOption(index) ==
  /\ HeaderOptionsShown
  /\ index \in 0..(Len(currentHeaderOptions) - 1)
  /\ currentHeaderOptions' = FilterOutIndex(currentHeaderOptions, index)
  /\ UNCHANGED <<formVars, columns, fieldVars, choiceVars, tableVars,
                 currentHeaderType, currentHeaderOptionInput, plainHtmlInput,
                 otherVars>>

\* the first loop pushing rows of c + 1 cells whatever the column count
EnsureRowsByCell(data, cols, r, c) ==
  IF Len(data) <= r
  THEN data \o [i \in 1..(r + 1 - Len(data)) |-> EmptyRow(c + 1)]
  ELSE data

\* the first loop of _setTableCell: rows are pushed until index r exists,
\* each of Number(tableColumns) || (c + 1) empty cells
EnsureRows(data, cols, r, c) ==
  LET width == IF Number(cols) # 0 THEN Number(cols) ELSE c + 1
  IN IF Len(data) <= r
     THEN data \o [i \in 1..(r + 1 - Len(data)) |-> EmptyRow(width)]
     ELSE data

\* the second loop: row r is padded until index c exists
EnsureColumns(row, c) ==
  IF Len(row) <= c THEN row \o EmptyRow(c + 1 - Len(row)) ELSE row

\* the grid stored when the rows pushed are one array used for every new row,
\* so that the value written shows in each of them
SetCellSharedRow(data, cols, r, c, value) ==
  LET grown == EnsureRows(data, cols, r, c)
      row == EnsureColumns(grown[r + 1], c)
  IN [i \in 1..Len(grown) |->
        IF i > Len(data) \/ i = r + 1
        THEN [EnsureColumns(grown[i], c) EXCEPT ![c + 1] = value]
        ELSE grown[i]]

\* the grid _setTableCell(r, c, value) stores; r and c count from 0
SetCell(data, cols, r, c, value) ==
  LET grown == EnsureRows(data, cols, r, c)
      row == EnsureColumns(grown[r + 1], c)
  IN [grown EXCEPT ![r + 1] = [row EXCEPT ![c + 1] = value]]

\* _setTableCell, called by the input of cell (r, c) of the cell grid
setTableCell(r, c, value) ==
  /\ CellGridShown
  /\ r \in 0..(Number(tableRows) - 1)
  /\ c \in 0..(Number(tableColumns) - 1)
  /\ tableData' = SetCell(tableData, tableColumns, r, c, value)
  /\ UNCHANGED <<formVars, columns, fieldVars, choiceVars, tableName,
                 tableRows, tableColumns, tableHeaders, currentHeaderInput,
                 tableColumnDefs, headerVars, plainHtmlInput, otherVars>>

-----------------------------------------------------------------------------
(* _addColumn *)

\* the checks with the table name taken untrimmed
TableInvalidUntrimmedName ==
  /\ newColumnType = "htmltable"
  /\ \/ ~Truthy(tableName)
     \/ ~Truthy(tableRows) \/ Number(tableRows) < 1
     \/ ~Truthy(tableColumns) \/ Number(tableColumns) < 1
     \/ Len(tableHeaders) # Number(tableColumns)

\* the htmltable checks at the head of _addColumn, each ending in an alert
TableInvalid ==
  /\ newColumnType = "htmltable"
  /\ \/ Trim(tableName) = <<>>
     \/ ~Truthy(tableRows) \/ Number(tableRows) < 1
     \/ ~Truthy(tableColumns) \/ Number(tableColumns) < 1
     \/ Len(tableHeaders) # Number(tableColumns)

\* the pending input _addColumn reads
Draft ==
  [newColumnName |-> newColumnName,
   newInternalName |-> newInternalName,
   newColumnType |-> newColumnType,
   required |-> required,
   order |-> order,
   options |-> options,
   tableName |-> tableName,
   tableRows |-> tableRows,
   tableColumns |-> tableColumns,
   tableHeaders |-> tableHeaders,
   tableColumnDefs |-> tableColumnDefs,
   tableData |-> tableData,
   plainHtmlInput |-> plainHtmlInput]

GeneratedInternalName(internal, name) ==
  IF Truthy(internal) THEN internal
  ELSE ReplaceNonAlnum(ReplaceWhiteSpaceRuns(name))

MaxOrder(cols) ==
  IF Len(cols) > 0
  THEN MathMax([i \in 1..Len(cols) |-> cols[i].order])
  ELSE 0

\* the order taken from the number of fields instead of the greatest order
OrderNumberByCount(ord, cols) ==
  IF Truthy(ord) THEN Number(ord) ELSE Len(cols) + 1

OrderNumber(ord, cols) ==
  IF Truthy(ord) THEN Number(ord) ELSE MaxOrder(cols) + 1

\* the ColumnConfig of an _addColumn that attaches the options whatever the
\* type
BuildColumnAlwaysOptions(d, cols) ==
  LET base == [label |-> d.newColumnName,
               internalName |->
                 GeneratedInternalName(d.newInternalName, d.newColumnName),
               type |-> d.newColumnType,
               required |-> d.required,
               order |-> OrderNumber(d.order, cols),
               options |-> d.options]
      table == IF d.newColumnType \in {"htmltable", "htmlrender"}
               THEN [tableName |-> d.tableName,
                     tableRows |-> Number(d.tableRows),
                     tableColumns |-> Number(d.tableColumns),
                     tableHeaders |-> d.tableHeaders,
                     tableColumnDefs |-> d.tableColumnDefs,
                     tableData |-> d.tableData]
               ELSE <<>>
      html == IF d.newColumnType = "plainhtml"
              THEN [htmlContent |-> d.plainHtmlInput]
              ELSE <<>>
  IN base @@ table @@ html

\* the ColumnConfig _addColumn builds from the pending input d when the
\* schema holds the fields cols
BuildColumn(d, cols) ==
  LET base == [label |-> d.newColumnName,
               internalName |->
                 GeneratedInternalName(d.newInternalName, d.newColumnName),
               type |-> d.newColumnType,
               required |-> d.required,
               order |-> OrderNumber(d.order, cols)]
      choice == IF d.newColumnType \in ChoiceTypes
                THEN [options |-> d.options]
                ELSE <<>>
      table == IF d.newColumnType = "htmltable"
               THEN [tableName |-> d.tableName,
                     tableRows |-> Number(d.tableRows),
                     tableColumns |-> Number(d.tableColumns),
                     tableHeaders |-> [i \in 1..Len(d.tableColumnDefs) |->
                                         d.tableColumnDefs[i].name],
                     tableColumnDefs |-> d.tableColumnDefs,
                     tableData |-> d.tableData]
               ELSE <<>>
      render == IF d.newColumnType = "htmlrender"
                THEN [tableName |-> d.tableName,
                      tableRows |-> Number(d.tableRows),
                      tableColumns |-> Number(d.tableColumns),
                      tableHeaders |-> d.tableHeaders,
                      tableColumnDefs |-> d.tableColumnDefs,
                      tableData |-> d.tableData]
                ELSE <<>>
      html == IF d.newColumnType = "plainhtml"
              THEN [htmlContent |-> d.plainHtmlInput]
              ELSE <<>>
  IN base @@ choice @@ table @@ render @@ html

NewColumn == BuildColumn(Draft, columns)

\* _addColumn with the label checked as the button checks it, untrimmed
addColumnUntrimmedLabel ==
  /\ ~AddColumnDisabled
  /\ IF ~Truthy(newColumnName) \/ TableInvalid
     THEN UNCHANGED vars
     ELSE /\ columns' = Append(columns, NewColumn)
          /\ newColumnName' = <<>>
          /\ newInternalName' = <<>>
          /\ order' = <<>>
          /\ options' = <<>>
          /\ tableName' = <<>>
          /\ tableRows' = <<>>
          /\ tableColumns' = <<>>
          /\ tableHeaders' = <<>>
          /\ currentHeaderInput' = <<>>
          /\ tableData' = <<>>
          /\ plainHtmlInput' = <<>>
          /\ UNCHANGED <<formVars, newColumnType, required, newChoiceValue,
                         tableColumnDefs, headerVars, otherVars>>

\* _addColumn with a check that turns down an internal name the schema has
addColumnUniqueNames ==
  /\ ~AddColumnDisabled
  /\ IF \/ Trim(newColumnName) = <<>>
        \/ TableInvalid
        \/ \E i \in 1..Len(columns) :
             columns[i].internalName = NewColumn.internalName
     THEN UNCHANGED vars
     ELSE /\ columns' = Append(columns, NewColumn)
          /\ newColumnName' = <<>>
          /\ newInternalName' = <<>>
          /\ order' = <<>>
          /\ options' = <<>>
          /\ tableName' = <<>>
          /\ tableRows' = <<>>
          /\ tableColumns' = <<>>
          /\ tableHeaders' = <<>>
          /\ currentHeaderInput' = <<>>
          /\ tableData' = <<>>
          /\ plainHtmlInput' = <<>>
          /\ UNCHANGED <<formVars, newColumnType, required, newChoiceValue,
                         tableColumnDefs, headerVars, otherVars>>

\* _addColumn, behind the "Add Column" button: an early return leaves the
\* state as it is, otherwise the field is appended and the input reset
addColumn ==
  /\ ~AddColumnDisabled
  /\ IF Trim(newColumnName) = <<>> \/ TableInvalid
     THEN UNCHANGED vars
     ELSE /\ columns' = Append(columns, NewColumn)
          /\ newColumnName' = <<>>
          /\ newInternalName' = <<>>
          /\ order' = <<>>
          /\ options' = <<>>
          /\ tableName' = <<>>
          /\ tableRows' = <<>>
          /\ tableColumns' = <<>>
          /\ tableHeaders' = <<>>
          /\ currentHeaderInput' = <<>>
          /\ tableData' = <<>>
          /\ plainHtmlInput' = <<>>
          /\ UNCHANGED <<formVars, newColumnType, required, newChoiceValue,
                         tableColumnDefs, headerVars, otherVars>>

-----------------------------------------------------------------------------
(* Array.prototype.sort((a, b) => a.order - b.order) *)

\* the place x takes when elements of equal order are not kept in place
InsertBeforeEqual(sorted, x) ==
  LET k == Cardinality({i \in 1..Len(sorted) : sorted[i].order < x.order})
  IN SubSeq(sorted, 1, k) \o <<x>> \o SubSeq(sorted, k + 1, Len(sorted))

\* the place x takes in a list already sorted: behind every element whose
\* order is not greater, the sort being stable
InsertByOrder(sorted, x) ==
  LET k == Cardinality({i \in 1..Len(sorted) : sorted[i].order <= x.order})
  IN SubSeq(sorted, 1, k) \o <<x>> \o SubSeq(sorted, k + 1, Len(sorted))

RECURSIVE SortByOrder(_)
SortByOrder(fields) ==
  IF fields = <<>> THEN <<>>
  ELSE InsertByOrder(SortByOrder(SubSeq(fields, 1, Len(fields) - 1)),
                     fields[Len(fields)])

-----------------------------------------------------------------------------
(* JSON.stringify and JSON.parse.  A document is the tree of its text: a   *)
(* string node holds the characters between the quotes, escapes included;  *)
(* an object node holds its members in the order they are written.  Type   *)
(* tags come from the fixed dropdown keys, need no escape and are kept as  *)
(* word nodes.                                                             *)

\* the escapes without the one of the backslash
RECURSIVE QuoteKeepingBackslash(_)
QuoteKeepingBackslash(s) ==
  IF s = <<>> THEN <<>>
  ELSE LET c == Head(s)
       IN (CASE c = "\"" -> <<"\\", "\"">>
             [] c = "\n" -> <<"\\", "n">>
             [] c = "\t" -> <<"\\", "t">>
             [] OTHER -> <<c>>) \o QuoteKeepingBackslash(Tail(s))

RECURSIVE Quote(_)
Quote(s) ==
  IF s = <<>> THEN <<>>
  ELSE LET c == Head(s)
       IN (CASE c = "\"" -> <<"\\", "\"">>
             [] c = "\\" -> <<"\\", "\\">>
             [] c = "\n" -> <<"\\", "n">>
             [] c = "\t" -> <<"\\", "t">>
             [] OTHER -> <<c>>) \o Quote(Tail(s))

RECURSIVE Unquote(_)
Unquote(s) ==
  IF s = <<>> THEN <<>>
  ELSE IF Head(s) = "\\" /\ Len(s) >= 2
       THEN (CASE s[2] = "n" -> <<"\n">>
               [] s[2] = "t" -> <<"\t">>
               [] OTHER -> <<s[2]>>) \o Unquote(Tail(Tail(s)))
       ELSE <<Head(s)>> \o Unquote(Tail(s))

JsonText(s) == [t |-> "string", v |-> Quote(s)]

JsonWord(w) == [t |-> "word", v |-> w]

JsonNumber(n) == [t |-> "number", v |-> n]

JsonBoolean(b) == [t |-> "boolean", v |-> b]

JsonArray(a) == [t |-> "array", v |-> a]

\* the keys an object has, in the order they were set: a key the object
\* lacks (an undefined property) is not written
PresentKeys(obj, keyOrder) == SelectSeq(keyOrder, LAMBDA k : k \in DOMAIN obj)

JsonObject(members) == [t |-> "object", v |-> members]

StringifyTextArray(a) == JsonArray([i \in 1..Len(a) |-> JsonText(a[i])])

ColumnDefKeys == <<"name", "type", "options">>

StringifyColumnDefProp(k, v) ==
  CASE k = "name" -> JsonText(v)
    [] k = "type" -> JsonWord(v)
    [] k = "options" -> StringifyTextArray(v)

StringifyColumnDef(d) ==
  LET ks == PresentKeys(d, ColumnDefKeys)
  IN JsonObject([i \in 1..Len(ks) |->
                   [k |-> ks[i], v |-> StringifyColumnDefProp(ks[i], d[ks[i]])]])

\* the keys of a ColumnConfig in the order _addColumn sets them
FieldKeys ==
  <<"label", "internalName", "type", "required", "order", "options",
    "tableName", "tableRows", "tableColumns", "tableHeaders",
    "tableColumnDefs", "tableData", "htmlContent">>

StringifyFieldProp(k, v) ==
  CASE k \in {"label", "internalName", "tableName", "htmlContent"} ->
         JsonText(v)
    [] k = "type" -> JsonWord(v)
    [] k = "required" -> JsonBoolean(v)
    [] k \in {"order", "tableRows", "tableColumns"} -> JsonNumber(v)
    [] k \in {"options", "tableHeaders"} -> StringifyTextArray(v)
    [] k = "tableColumnDefs" ->
         JsonArray([i \in 1..Len(v) |-> StringifyColumnDef(v[i])])
    [] k = "tableData" ->
         JsonArray([i \in 1..Len(v) |-> StringifyTextArray(v[i])])

StringifyField(f) ==
  LET ks == PresentKeys(f, FieldKeys)
  IN JsonObject([i \in 1..Len(ks) |->
                   [k |-> ks[i], v |-> StringifyFieldProp(ks[i], f[ks[i]])]])

FormKeys == <<"formTitle", "description", "fields">>

StringifyFormProp(k, v) ==
  CASE k \in {"formTitle", "description"} -> JsonText(v)
    [] k = "fields" -> JsonArray([i \in 1..Len(v) |-> StringifyField(v[i])])

\* JSON.stringify(finalJson)
JsonStringify(form) ==
  LET ks == PresentKeys(form, FormKeys)
  IN JsonObject([i \in 1..Len(ks) |->
                   [k |-> ks[i], v |-> StringifyFormProp(ks[i], form[ks[i]])]])

\* JSON.parse of a well-formed document; of a key written twice the last
\* member counts
RECURSIVE JsonParse(_)
JsonParse(node) ==
  CASE node.t = "string" -> Unquote(node.v)
    [] node.t \in {"word", "number", "boolean"} -> node.v
    [] node.t = "array" -> [i \in 1..Len(node.v) |-> JsonParse(node.v[i])]
    [] node.t = "object" ->
         [key \in {node.v[i].k : i \in 1..Len(node.v)} |->
            LET last == CHOOSE i \in 1..Len(node.v) :
                          /\ node.v[i].k = key
                          /\ \A j \in (i + 1)..Len(node.v) : node.v[j].k # key
            IN JsonParse(node.v[last].v)]

-----------------------------------------------------------------------------
(* _submitForm and the list store *)

\* the object _submitForm serialises: the fields sorted by order
FinalJson ==
  [formTitle |-> formTitle,
   description |-> description,
   fields |-> SortByOrder(columns)]

\* the title checked as typed, blanks and all
submitFormUntrimmed ==
  IF formTitle = <<>> \/ Len(columns) = 0
  THEN UNCHANGED vars
  ELSE /\ inFlight' = Append(inFlight,
                             [Title |-> formTitle,
                              ConfigurationJSON |-> JsonStringify(FinalJson),
                              Status |-> "Active"])
       /\ UNCHANGED <<builderVars, items, viewVars, adminVars>>

\* a save refused while another one is in flight
submitFormOneAtATime ==
  IF Trim(formTitle) = <<>> \/ Len(columns) = 0 \/ inFlight # <<>>
  THEN UNCHANGED vars
  ELSE /\ inFlight' = Append(inFlight,
                             [Title |-> formTitle,
                              ConfigurationJSON |-> JsonStringify(FinalJson),
                              Status |-> "Active"])
       /\ UNCHANGED <<builderVars, items, viewVars, adminVars>>

\* _submitForm sorting this.state.columns itself instead of a copy
submitFormSortingInPlace ==
  IF Trim(formTitle) = <<>> \/ Len(columns) = 0
  THEN UNCHANGED vars
  ELSE /\ inFlight' = Append(inFlight,
                             [Title |-> formTitle,
                              ConfigurationJSON |-> JsonStringify(FinalJson),
                              Status |-> "Active"])
       /\ columns' = SortByOrder(columns)
       /\ UNCHANGED <<formVars, fieldVars, choiceVars, tableVars, headerVars,
                      plainHtmlInput, items, viewVars, adminVars>>

\* _submitForm up to the await: nothing is sent without a title or a field
submitForm ==
  IF Trim(formTitle) = <<>> \/ Len(columns) = 0
  THEN UNCHANGED vars
  ELSE /\ inFlight' = Append(inFlight,
                             [Title |-> formTitle,
                              ConfigurationJSON |-> JsonStringify(FinalJson),
                              Status |-> "Active"])
       /\ UNCHANGED <<builderVars, items, viewVars, adminVars>>

\* items.add() answers: the store assigns the Id, and _submitForm goes on
\* behind the await with the reset of the builder
addResolved(i) ==
  /\ i \in 1..Len(inFlight)
  /\ items' = Append(items, [Id |-> Len(items) + 1] @@ inFlight[i])
  /\ inFlight' = FilterOutIndex(inFlight, i - 1)
  /\ formTitle' = <<>>
  /\ description' = <<>>
  /\ columns' = <<>>
  /\ newColumnName' = <<>>
  /\ newInternalName' = <<>>
  /\ newColumnType' = "text"
  /\ required' = FALSE
  /\ order' = <<>>
  /\ options' = <<>>
  /\ newChoiceValue' = <<>>
  /\ tableName' = <<>>
  /\ tableRows' = <<>>
  /\ tableColumns' = <<>>
  /\ tableHeaders' = <<>>
  /\ currentHeaderInput' = <<>>
  \* this.props.onSuccess(): _refreshData() and _closeDialogs()
  /\ loads' = Append(loads, LoadSent)
  /\ isViewDialogOpen' = FALSE
  /\ isEditDialogOpen' = FALSE
  /\ isNewFormDialogOpen' = FALSE
  /\ UNCHANGED <<tableData, plainHtmlInput, tableColumnDefs, headerVars,
                 viewVars, config, selectedItem>>

\* a catch block that goes on as after a success
addRejectedAsSuccess(i) ==
  /\ i \in 1..Len(inFlight)
  /\ inFlight' = FilterOutIndex(inFlight, i - 1)
  /\ formTitle' = <<>>
  /\ description' = <<>>
  /\ columns' = <<>>
  /\ loads' = Append(loads, LoadSent)
  /\ UNCHANGED <<fieldVars, choiceVars, tableVars, headerVars, plainHtmlInput,
                 items, viewVars, config, dialogVars, selectedItem>>

\* items.add() fails: the catch block logs and alerts
addRejected(i) ==
  /\ i \in 1..Len(inFlight)
  /\ inFlight' = FilterOutIndex(inFlight, i - 1)
  /\ UNCHANGED <<builderVars, items, viewVars, adminVars>>

-----------------------------------------------------------------------------
(* Eform *)

\* the value of a ConfigurationJSON column that holds no text (null)
NullColumn == [t |-> "none", v |-> <<>>]

\* a ConfigurationJSON text that is no JSON document, the empty text included
Malformed(text) == [t |-> "malformed", v |-> text]

\* JSON.parse(text): the value, or the SyntaxError it throws
JsonParseText(text) ==
  IF text.t = "malformed"
  THEN [threw |-> TRUE, value |-> <<>>]
  ELSE [threw |-> FALSE, value |-> <<JsonParse(text)>>]

\* Eform constructor, componentDidMount and _loadItems of a form view opened
\* for the id: the state starts empty, and getById answers with the item or
\* fails, which the catch block logs
eformLoadItems(id) ==
  /\ eformConfig' = IF \E i \in 1..Len(items) : items[i].Id = id
                    THEN <<items[CHOOSE i \in 1..Len(items) : items[i].Id = id]>>
                    ELSE <<>>
  /\ formData' = <<>>
  /\ UNCHANGED <<builderVars, storeVars, adminVars>>

\* the body of the try block of Eform.render: <<>> is null or undefined
EformTryParse(cfg) ==
  IF cfg = <<>> \/ "ConfigurationJSON" \notin DOMAIN cfg[1]
  THEN [threw |-> FALSE, value |-> <<>>]
  ELSE IF cfg[1].ConfigurationJSON.t = NullColumn.t
  THEN [threw |-> FALSE, value |-> <<>>]
  ELSE JsonParseText(cfg[1].ConfigurationJSON)

\* a try block whose error is not caught
EformRethrow(attempt) == attempt

\* the catch block of Eform.render: the error is logged and parsedConfig
\* stays null
EformCatch(attempt) ==
  [threw |-> FALSE,
   value |-> IF attempt.threw THEN <<>> ELSE attempt.value]

\* parsedConfig of Eform.render for the state config: <<>> is null
EformParse(cfg) == EformCatch(EformTryParse(cfg)).value

\* sortedFields of Eform.render: <<>> is null
EformSort(parsed) ==
  IF parsed # <<>> /\ "fields" \in DOMAIN parsed[1]
  THEN <<SortByOrder(parsed[1].fields)>>
  ELSE <<>>

ParsedConfig == EformParse(eformConfig)

SortedFields == EformSort(ParsedConfig)

\* String(n) of a natural number
RECURSIVE NatToDigits(_)
NatToDigits(n) ==
  LET d == CHOOSE c \in Digits : DigitVal(c) = n % 10
  IN IF n < 10 THEN <<d>> ELSE NatToDigits(n \div 10) \o <<d>>

\* a key that leaves the column out
FormDataKeyByRow(internalName, r, c) ==
  internalName \o <<"-">> \o NatToDigits(r)

\* `${field.internalName}-${r}-${c}`
FormDataKey(internalName, r, c) ==
  internalName \o <<"-">> \o NatToDigits(r) \o <<"-">> \o NatToDigits(c)

TextTrue == <<"t", "r", "u", "e">>

TextFalse == <<"f", "a", "l", "s", "e">>

\* `Column ${c + 1}`
DefaultColumnName(c) ==
  <<"C", "o", "l", "u", "m", "n", " ">> \o NatToDigits(c + 1)

\* a numeric property or 0 when the field lacks it
NumberOrZero(field, key) == IF key \in DOMAIN field THEN field[key] ELSE 0

\* colDefs of the htmltable case
HtmlTableColDefs(field) ==
  IF "tableColumnDefs" \in DOMAIN field THEN field.tableColumnDefs
  ELSE IF "tableHeaders" \in DOMAIN field
  THEN [i \in 1..Len(field.tableHeaders) |->
          [name |-> field.tableHeaders[i], type |-> "text"]]
  ELSE <<>>

\* def of renderCell
HtmlTableCellDef(field, c) ==
  LET colDefs == HtmlTableColDefs(field)
  IN IF c + 1 \in 1..Len(colDefs) THEN colDefs[c + 1]
     ELSE [name |-> DefaultColumnName(c), type |-> "text"]

\* the cell of the field's tableData; a cell the grid lacks is undefined,
\* which every use below turns into the empty text
StoredCell(field, r, c) ==
  IF "tableData" \in DOMAIN field /\ r + 1 \in 1..Len(field.tableData)
  THEN IF c + 1 \in 1..Len(field.tableData[r + 1])
       THEN field.tableData[r + 1][c + 1]
       ELSE <<>>
  ELSE <<>>

\* val of renderCell: the answer, else the stored cell, and "false" for an
\* empty cell of a yesno column
HtmlTableCellValue(field, answers, r, c) ==
  LET name == FormDataKey(field.internalName, r, c)
      val == IF name \in DOMAIN answers THEN answers[name]
             ELSE StoredCell(field, r, c)
  IN IF HtmlTableCellDef(field, c).type = "yesno" /\ ~Truthy(val)
     THEN TextFalse
     ELSE val

\* the input renderCell returns
RenderCell(field, answers, r, c) ==
  [name |-> FormDataKey(field.internalName, r, c),
   type |-> HtmlTableCellDef(field, c).type,
   value |-> HtmlTableCellValue(field, answers, r, c)]

\* colDef of a cell of the htmlrender case
HtmlRenderCellDef(field, c) ==
  IF "tableColumnDefs" \in DOMAIN field /\ c + 1 \in 1..Len(field.tableColumnDefs)
  THEN field.tableColumnDefs[c + 1]
  ELSE [name |-> DefaultColumnName(c), type |-> "text"]

\* displayValue of a cell of the htmlrender case, which reads the answers
HtmlRenderDisplayValueFromAnswers(field, answers, r, c) ==
  HtmlTableCellValue(field, answers, r, c)

\* displayValue of a cell of the htmlrender case
HtmlRenderDisplayValue(field, answers, r, c) ==
  LET cellValue == StoredCell(field, r, c)
  IN IF HtmlRenderCellDef(field, c).type = "yesno" /\ ~Truthy(cellValue)
     THEN TextFalse
     ELSE cellValue

\* null, which React renders as nothing
NoControl == [control |-> "null"]

FieldOptions(field) == IF "options" \in DOMAIN field THEN field.options ELSE <<>>

\* the default case turned into a plain text input
RenderDynamicFieldDefaultText(field, answers) ==
  [control |-> "input:text", name |-> field.internalName]

\* renderDynamicField: the element returned for the field, by its type
RenderDynamicField(field, answers) ==
  CASE field.type = "text" ->
         [control |-> "input:text", name |-> field.internalName]
    [] field.type = "number" ->
         [control |-> "input:number", name |-> field.internalName]
    [] field.type = "date" ->
         [control |-> "input:date", name |-> field.internalName]
    [] field.type = "multiline" ->
         [control |-> "textarea", name |-> field.internalName]
    [] field.type = "dropdown" ->
         [control |-> "select", name |-> field.internalName,
          options |-> FieldOptions(field)]
    [] field.type = "radio" ->
         [control |-> "input:radio", name |-> field.internalName,
          options |-> FieldOptions(field)]
    [] field.type = "checkbox" ->
         [control |-> "input:checkbox", name |-> field.internalName,
          options |-> FieldOptions(field)]
    [] field.type = "yesno" ->
         [control |-> "input:checkbox", name |-> field.internalName]
    [] field.type = "currency" ->
         [control |-> "input:number", name |-> field.internalName]
    [] field.type = "htmltable" ->
         [control |-> "table", name |-> field.internalName,
          cells |-> [r \in 1..NumberOrZero(field, "tableRows") |->
                      [c \in 1..NumberOrZero(field, "tableColumns") |->
                         RenderCell(field, answers, r - 1, c - 1)]]]
    [] field.type = "htmlrender" ->
         [control |-> "table:readonly", name |-> field.internalName,
          cells |-> [r \in 1..NumberOrZero(field, "tableRows") |->
                      [c \in 1..NumberOrZero(field, "tableColumns") |->
                         HtmlRenderDisplayValue(field, answers, r - 1, c - 1)]]]
    [] field.type = "plainhtml" ->
         [control |-> "html", name |-> field.internalName,
          html |-> IF "htmlContent" \in DOMAIN field
                   THEN field.htmlContent ELSE <<>>]
    [] OTHER -> NoControl

\* what Eform.render returns for the state: whether it threw, and the
\* elements of the fields, <<>> where "Loading..." is shown instead
EformRender(cfg, answers) ==
  LET attempt == EformCatch(EformTryParse(cfg))
      sorted == EformSort(attempt.value)
  IN IF attempt.threw
     THEN [threw |-> TRUE, loading |-> FALSE, elements |-> <<>>]
     ELSE IF sorted = <<>>
     THEN [threw |-> FALSE, loading |-> TRUE, elements |-> <<>>]
     ELSE [threw |-> FALSE, loading |-> FALSE,
           elements |-> [i \in 1..Len(sorted[1]) |->
                           RenderDynamicField(sorted[1][i], answers)]]

\* the controls on the page: the elements that are not null
Controls(rendered) == SelectSeq(rendered.elements, LAMBDA e : e # NoControl)

\* "a,b".split(",")
RECURSIVE SplitComma(_)
SplitComma(s) ==
  IF \A i \in 1..Len(s) : s[i] # "," THEN <<s>>
  ELSE LET k == CHOOSE i \in 1..Len(s) :
                  s[i] = "," /\ \A j \in 1..(i - 1) : s[j] # ","
       IN <<SubSeq(s, 1, k - 1)>> \o SplitComma(SubSeq(s, k + 1, Len(s)))

\* parts.join(",")
RECURSIVE JoinComma(_)
JoinComma(parts) ==
  IF parts = <<>> THEN <<>>
  ELSE IF Len(parts) = 1 THEN parts[1]
  ELSE parts[1] \o <<",">> \o JoinComma(Tail(parts))

\* what the onChange handler of the input of a cell hands to setVal: the
\* text typed or picked, or for the check boxes the text made of the tick
CellChangeValue(field, answers, r, c, value, checked, option) ==
  LET def == HtmlTableCellDef(field, c)
      val == HtmlTableCellValue(field, answers, r, c)
      selections == IF Truthy(val) THEN SplitComma(val) ELSE <<>>
  IN CASE def.type = "yesno" -> IF checked THEN TextTrue ELSE TextFalse
       [] def.type = "checkbox" ->
            JoinComma(IF checked THEN Append(selections, option)
                      ELSE SelectSeq(selections, LAMBDA x : x # option))
       [] OTHER -> value

\* setVal: one entry of formData is set, the others are kept
SetVal(answers, name, v) ==
  [k \in DOMAIN answers \cup {name} |-> IF k = name THEN v ELSE answers[k]]

\* the user edits the input of row r and column c of the i-th field shown,
\* an htmltable: a select offers "" and the options, a check box exists for
\* each option, and a click on a check box turns over the tick it shows
cellChange(i, r, c, value, checked, option) ==
  /\ SortedFields # <<>>
  /\ i \in 1..Len(SortedFields[1])
  /\ LET field == SortedFields[1][i]
         def == HtmlTableCellDef(field, c)
         val == HtmlTableCellValue(field, formData, r, c)
         selections == IF Truthy(val) THEN SplitComma(val) ELSE <<>>
     IN /\ field.type = "htmltable"
        /\ r \in 0..(NumberOrZero(field, "tableRows") - 1)
        /\ c \in 0..(NumberOrZero(field, "tableColumns") - 1)
        /\ def.type \in {"dropdown", "radio"} =>
             value = <<>> \/
             \E k \in 1..Len(FieldOptions(def)) : def.options[k] = value
        /\ def.type = "checkbox" =>
             /\ \E k \in 1..Len(FieldOptions(def)) : def.options[k] = option
             /\ checked = ~(\E k \in 1..Len(selections) : selections[k] = option)
        /\ def.type = "yesno" => checked = ~(val = TextTrue)
        /\ formData' = SetVal(formData, FormDataKey(field.internalName, r, c),
                              CellChangeValue(field, formData, r, c,
                                              value, checked, option))
  /\ UNCHANGED <<eformConfig, builderVars, storeVars, adminVars>>

-----------------------------------------------------------------------------
(* AdminWEbPart *)

\* items.filter("Status eq 'Active'")(): what the list answers
ActiveItems(list) == SelectSeq(list, LAMBDA item : item.Status = "Active")

\* the list answers the request of the i-th _loadItems call not yet finished
listAnswered(i) ==
  /\ i \in 1..Len(loads)
  /\ loads[i].reply = <<>>
  /\ loads' = [loads EXCEPT ![i] = [reply |-> <<ActiveItems(items)>>]]
  /\ UNCHANGED <<builderVars, storeVars, viewVars, config, dialogVars,
                 selectedItem>>

\* item.ConfigurationJSON ? JSON.parse(item.ConfigurationJSON) : null, where
\* a missing column, null and the empty text are falsy: <<>> is null
ItemJson(item) ==
  IF \/ "ConfigurationJSON" \notin DOMAIN item
     \/ item.ConfigurationJSON.t = NullColumn.t
     \/ /\ item.ConfigurationJSON.t = Malformed(<<>>).t
        /\ item.ConfigurationJSON.v = <<>>
  THEN [threw |-> FALSE, value |-> <<>>]
  ELSE JsonParseText(item.ConfigurationJSON)

UntitledForm ==
  <<"U", "n", "t", "i", "t", "l", "e", "d", " ", "F", "o", "r", "m">>

\* json?.key || otherwise
TextOr(json, key, otherwise) ==
  IF json # <<>> /\ key \in DOMAIN json[1] /\ Truthy(json[1][key])
  THEN json[1][key]
  ELSE otherwise

\* the object the map callback returns for an item
ItemSummary(item) ==
  [Id |-> item.Id,
   formTitle |-> TextOr(ItemJson(item).value, "formTitle", UntitledForm),
   description |-> TextOr(ItemJson(item).value, "description", <<>>)]

LowerCaseLetters ==
  <<"a","b","c","d","e","f","g","h","i","j","k","l","m",
    "n","o","p","q","r","s","t","u","v","w","x","y","z">>

UpperCaseLetters ==
  <<"A","B","C","D","E","F","G","H","I","J","K","L","M",
    "N","O","P","Q","R","S","T","U","V","W","X","Y","Z">>

\* the place of a character in the order of the UTF-16 code units: blank
\* and punctuation, digits, capitals, small letters
CodeUnitWeight(ch) ==
  IF ch \in Digits THEN 1 + DigitVal(ch)
  ELSE IF \E k \in 1..26 : UpperCaseLetters[k] = ch
  THEN 10 + (CHOOSE k \in 1..26 : UpperCaseLetters[k] = ch)
  ELSE IF \E k \in 1..26 : LowerCaseLetters[k] = ch
  THEN 36 + (CHOOSE k \in 1..26 : LowerCaseLetters[k] = ch)
  ELSE 0

\* the primary collation weight of a character, the same for a capital and
\* its small letter: blank and punctuation, digits, letters
PrimaryWeight(ch) ==
  IF ch \in Digits THEN 1 + DigitVal(ch)
  ELSE IF \E k \in 1..26 : UpperCaseLetters[k] = ch
  THEN 10 + (CHOOSE k \in 1..26 : UpperCaseLetters[k] = ch)
  ELSE IF \E k \in 1..26 : LowerCaseLetters[k] = ch
  THEN 10 + (CHOOSE k \in 1..26 : LowerCaseLetters[k] = ch)
  ELSE 0

\* a comparison by code units, which tells capitals from small letters
RECURSIVE CompareCodeUnits(_, _)
CompareCodeUnits(a, b) ==
  IF a = <<>> /\ b = <<>> THEN 0
  ELSE IF a = <<>> THEN 0 - 1
  ELSE IF b = <<>> THEN 1
  ELSE IF CodeUnitWeight(Head(a)) < CodeUnitWeight(Head(b)) THEN 0 - 1
  ELSE IF CodeUnitWeight(Head(a)) > CodeUnitWeight(Head(b)) THEN 1
  ELSE CompareCodeUnits(Tail(a), Tail(b))

\* a.localeCompare(b, undefined, { sensitivity: "base" })
RECURSIVE LocaleCompareBase(_, _)
LocaleCompareBase(a, b) ==
  IF a = <<>> /\ b = <<>> THEN 0
  ELSE IF a = <<>> THEN 0 - 1
  ELSE IF b = <<>> THEN 1
  ELSE IF PrimaryWeight(Head(a)) < PrimaryWeight(Head(b)) THEN 0 - 1
  ELSE IF PrimaryWeight(Head(a)) > PrimaryWeight(Head(b)) THEN 1
  ELSE LocaleCompareBase(Tail(a), Tail(b))

\* the place x takes in a list already sorted by title, the sort being stable
InsertByTitle(sorted, x) ==
  LET k == Cardinality({i \in 1..Len(sorted) :
                          LocaleCompareBase(sorted[i].formTitle, x.formTitle) <= 0})
  IN SubSeq(sorted, 1, k) \o <<x>> \o SubSeq(sorted, k + 1, Len(sorted))

\* parsedItems.sort((a, b) => a.formTitle.localeCompare(b.formTitle, ...))
RECURSIVE SortByTitle(_)
SortByTitle(summaries) ==
  IF summaries = <<>> THEN <<>>
  ELSE InsertByTitle(SortByTitle(SubSeq(summaries, 1, Len(summaries) - 1)),
                     summaries[Len(summaries)])

\* the try block of _loadItems behind the await: the first JSON.parse that
\* throws ends the map, otherwise the summaries are sorted
ParsedItems(reply) ==
  IF \E k \in 1..Len(reply) : ItemJson(reply[k]).threw
  THEN [threw |-> TRUE, value |-> <<>>]
  ELSE [threw |-> FALSE,
        value |-> SortByTitle([k \in 1..Len(reply) |-> ItemSummary(reply[k])])]

\* the answer of the list reaches the i-th _loadItems call: the summaries
\* become the state, or the catch block logs the error and the state stays
loadItemsResolved(i) ==
  /\ i \in 1..Len(loads)
  /\ loads[i].reply # <<>>
  /\ config' = IF ParsedItems(loads[i].reply[1]).threw THEN config
               ELSE ParsedItems(loads[i].reply[1]).value
  /\ loads' = FilterOutIndex(loads, i - 1)
  /\ UNCHANGED <<builderVars, storeVars, viewVars, dialogVars, selectedItem>>

\* the request of the i-th _loadItems call fails: the catch block logs
loadItemsRejected(i) ==
  /\ i \in 1..Len(loads)
  /\ loads[i].reply = <<>>
  /\ loads' = FilterOutIndex(loads, i - 1)
  /\ UNCHANGED <<builderVars, storeVars, viewVars, config, dialogVars,
                 selectedItem>>

\* _onNewFormClick
onNewFormClick ==
  /\ isNewFormDialogOpen' = TRUE
  /\ UNCHANGED <<builderVars, storeVars, viewVars, config, isViewDialogOpen,
                 isEditDialogOpen, selectedItem, loads>>

\* _onViewClick(item), item being the k-th entry of the list shown
onViewClick(k) ==
  /\ k \in 1..Len(config)
  /\ isViewDialogOpen' = TRUE
  /\ selectedItem' = <<config[k]>>
  /\ UNCHANGED <<builderVars, storeVars, viewVars, config, isEditDialogOpen,
                 isNewFormDialogOpen, loads>>

\* _closeDialogs
closeDialogs ==
  /\ isViewDialogOpen' = FALSE
  /\ isEditDialogOpen' = FALSE
  /\ isNewFormDialogOpen' = FALSE
  /\ UNCHANGED <<builderVars, storeVars, viewVars, config, selectedItem, loads>>

\* onDismiss of the New Form dialog
dismissNewForm ==
  /\ isNewFormDialogOpen' = FALSE
  /\ UNCHANGED <<builderVars, storeVars, viewVars, config, isViewDialogOpen,
                 isEditDialogOpen, selectedItem, loads>>

-----------------------------------------------------------------------------
(* Choice fields: the author types labels and option values, picks a type  *)
(* and presses "Add" and "Add Column".                                     *)

ChoiceLabels == {<<>>, <<"Q">>}

ChoiceValues == {<<>>, <<" ">>, <<" ", "Y", "e", "s", " ">>}

NextChoice ==
  \/ \E v \in ChoiceLabels : setNewColumnName(v)
  \/ \E t \in {"text"} \cup ChoiceTypes : setNewColumnType(t)
  \/ \E v \in ChoiceValues : setNewChoiceValue(v)
  \/ Len(options) < MaxOptions /\ addChoice
  \/ Len(columns) < MaxFields /\ addColumn

SpecChoice == Init /\ [][NextChoice]_vars

\* C1: a dropdown, radio or checkbox field is appended only when the
\* pending option list is not empty; the appended field then carries the
\* pending list as it was, and the pending list is empty afterwards
C1_ChoiceNeedsOptions ==
  [][/\ (newColumnType \in ChoiceTypes /\ options = <<>>)
          => columns' = columns
     /\ (newColumnType \in ChoiceTypes /\ Len(columns') > Len(columns))
          => /\ columns' = Append(columns, columns'[Len(columns')])
             /\ columns'[Len(columns')].options = options
             /\ Len(options) >= 1
             /\ options' = <<>>]_vars

C1_Witness ==
  /\ Len(columns) >= 1
  /\ columns[Len(columns)].type \in ChoiceTypes
  /\ columns[Len(columns)].options = << <<"Y", "e", "s">> >>
  /\ options = <<>>

-----------------------------------------------------------------------------
(* HTML Table fields: the author fills the table panel, adds and removes   *)
(* column headers and presses "Add Column"; text fields are added in       *)
(* between.                                                                *)

TableLabels == {<<>>, <<"Q">>}

TableNames == {<<>>, <<" ">>, <<"T">>}

TableRowInputs == {<<>>, <<"0">>, <<"1">>}

TableColumnInputs == {<<>>, <<"0">>, <<"2">>}

HeaderInputs == {<<>>, <<" ", "h">>}

NextTable ==
  \/ \E v \in TableLabels : setNewColumnName(v)
  \/ \E t \in {"text", "htmltable"} : setNewColumnType(t)
  \/ \E v \in TableNames : setTableName(v)
  \/ \E v \in TableRowInputs : setTableRows(v)
  \/ \E v \in TableColumnInputs : setTableColumnsTable(v)
  \/ \E v \in HeaderInputs : setCurrentHeaderInput(v)
  \/ \E t \in {"yesno"} : setCurrentHeaderType(t)
  \/ addTableHeader
  \/ \E i \in 0..1 : removeTableHeader(i)
  \/ Len(columns) < MaxFields /\ addColumn

SpecTable == Init /\ [][NextTable]_vars

\* C2: an htmltable field is appended only when the table name is not
\* blank, rows and columns are at least 1 and there are exactly tableColumns
\* pending column definitions, which the field takes over as they are
C2_TableValidated ==
  [][(newColumnType = "htmltable" /\ Len(columns') > Len(columns))
       => /\ Trim(tableName) # <<>>
          /\ Number(tableRows) >= 1
          /\ Number(tableColumns) >= 1
          /\ Len(tableColumnDefs) = Number(tableColumns)
          /\ columns' = Append(columns, columns'[Len(columns')])
          /\ columns'[Len(columns')].tableColumnDefs = tableColumnDefs
          /\ columns'[Len(columns')].tableColumns = Number(tableColumns)]_vars

\* an htmltable field of two columns is in the schema behind another field,
\* and the two definitions it took are still pending
C2_Witness ==
  /\ Len(columns) >= 2
  /\ columns[2].type = "htmltable"
  /\ columns[2].tableColumns = 2
  /\ Len(columns[2].tableColumnDefs) = 2
  /\ columns[2].tableColumnDefs[2].type = "yesno"
  /\ Len(tableColumnDefs) = 2

\* C4: every table field of the schema has at least one row and one column
\* and a cell grid of exactly tableRows rows of tableColumns cells
C4_TableGridComplete ==
  \A i \in 1..Len(columns) :
    columns[i].type \in {"htmltable", "htmlrender"}
      => /\ columns[i].tableRows >= 1
         /\ columns[i].tableColumns >= 1
         /\ Len(columns[i].tableData) = columns[i].tableRows
         /\ \A r \in 1..Len(columns[i].tableData) :
              Len(columns[i].tableData[r]) = columns[i].tableColumns

\* C5: a successful addField appends one field and leaves no pending
\* option, header, column definition or cell behind
C5_InputResetAfterAdd ==
  [][Len(columns') > Len(columns)
       => /\ columns' = Append(columns, columns'[Len(columns')])
          /\ options' = <<>>
          /\ tableHeaders' = <<>>
          /\ tableColumnDefs' = <<>>
          /\ tableData' = <<>>]_vars

-----------------------------------------------------------------------------
(* HTML Render fields: the author fills the render panel, where nothing is *)
(* checked before "Add Column".                                            *)

RenderColumnInputs == {<<>>, <<"1">>, <<"2">>}

NextRender ==
  \/ \E v \in TableLabels : setNewColumnName(v)
  \/ \E t \in {"htmlrender"} : setNewColumnType(t)
  \/ \E v \in RenderColumnInputs : setTableColumnsRender(v)
  \/ \E v \in HeaderInputs : setCurrentHeaderInput(v)
  \/ addTableHeader
  \/ \E i \in 0..1 : removeTableHeader(i)
  \/ Len(columns) < MaxFields /\ addColumn

SpecRender == Init /\ [][NextRender]_vars

\* C3: every table field of the schema has as many column definitions as
\* columns
C3_ColumnDefsMatchColumns ==
  \A i \in 1..Len(columns) :
    columns[i].type \in {"htmltable", "htmlrender"}
      => Len(columns[i].tableColumnDefs) = columns[i].tableColumns

-----------------------------------------------------------------------------
(* Field order: the author adds text fields with and without an explicit   *)
(* position.                                                               *)

OrderInputs ==
  {<<>>, <<"0">>, <<"1">>, <<"3">>, <<"-", "2">>, <<"1", "0">>}

\* the number each order input stands for
OrderValue(ord) ==
  CASE ord = <<"0">> -> 0
    [] ord = <<"1">> -> 1
    [] ord = <<"3">> -> 3
    [] ord = <<"-", "2">> -> 0 - 2
    [] ord = <<"1", "0">> -> 10

NextOrder ==
  \/ \E v \in TableLabels : setNewColumnName(v)
  \/ \E v \in OrderInputs : setOrder(v)
  \/ Len(columns) < MaxFields /\ addColumn

SpecOrder == Init /\ [][NextOrder]_vars

\* C6: the new field gets the explicit order when one is typed, otherwise
\* the greatest order of the schema plus 1, and 1 in an empty schema
C6_OrderResolution ==
  [][Len(columns') > Len(columns)
       => LET new == columns'[Len(columns')].order
          IN /\ order # <<>> => new = OrderValue(order)
             /\ (order = <<>> /\ columns = <<>>) => new = 1
             /\ (order = <<>> /\ columns # <<>>)
                  => /\ \E i \in 1..Len(columns) : new = columns[i].order + 1
                     /\ \A i \in 1..Len(columns) : new > columns[i].order]_vars

\* orders 1 and 3 were typed, the third field got 4
C6_Witness ==
  /\ Len(columns) = 3
  /\ columns[1].order = 1
  /\ columns[2].order = 3
  /\ columns[3].order = 4

-----------------------------------------------------------------------------
(* Internal names: the author types labels and, at times, an internal name *)

LabelEmployeeName ==
  <<"E", "m", "p", "l", "o", "y", "e", "e", " ", "N", "a", "m", "e", "!">>

NameLabels ==
  {<<>>, <<" ">>, LabelEmployeeName, <<"!", "?">>,
   <<" ", "a", "_", "1", "\t", " ", "b", "-", "Z", " ">>}

InternalNameInputs == {<<>>, <<"x", " ", "_", "1">>}

NextName ==
  \/ \E v \in NameLabels : setNewColumnName(v)
  \/ \E v \in InternalNameInputs : setNewInternalName(v)
  \/ Len(columns) < MaxFields /\ addColumn

SpecName == Init /\ [][NextName]_vars

\* C7: without an explicit internal name the field's internalName is its
\* label without the characters that are white space or not alphanumeric,
\* the others in their order; an explicit internal name is stored as typed
C7_InternalName ==
  [][Len(columns') > Len(columns)
       => LET new == columns'[Len(columns')]
          IN /\ new.label = newColumnName
             /\ newInternalName # <<>> => new.internalName = newInternalName
             /\ newInternalName = <<>>
                  => new.internalName =
                       SelectSeq(newColumnName,
                                 LAMBDA ch : /\ ch \notin WhiteSpace
                                             /\ ch \in Letters \cup Digits)]_vars

\* "Employee Name!" became "EmployeeName", and an underscore was dropped
C7_Witness ==
  /\ \E i \in 1..Len(columns) :
       /\ columns[i].label = LabelEmployeeName
       /\ columns[i].internalName =
            <<"E", "m", "p", "l", "o", "y", "e", "e", "N", "a", "m", "e">>
  /\ \E i \in 1..Len(columns) : columns[i].internalName = <<"a", "1", "b", "Z">>

-----------------------------------------------------------------------------
(* Cell grid: the author sets the table dimensions in either table panel,  *)
(* adds a header and fills cells of the grid of the HTML Render panel.     *)

CellRowInputs == {<<>>, <<"1">>, <<"3">>}

CellColumnInputs == {<<>>, <<"1">>, <<"2">>}

CellInputs == {<<>>, <<"x">>}

NextCell ==
  \/ \E t \in {"htmltable", "htmlrender"} : setNewColumnType(t)
  \/ \E v \in CellRowInputs : setTableRows(v)
  \/ \E v \in CellColumnInputs : setTableColumnsRender(v)
  \/ \E v \in CellColumnInputs : setTableColumnsTable(v)
  \/ \E v \in HeaderInputs : setCurrentHeaderInput(v)
  \/ addTableHeader
  \/ \E r \in 0..MaxCellIndex, c \in 0..MaxCellIndex, v \in CellInputs :
       setTableCell(r, c, v)

SpecCell == Init /\ [][NextCell]_vars

\* C10: whatever the pending grid and whichever cell (r, c) is written, the
\* grid stored has row r and cell (r, c), which holds the value; every cell
\* there was before keeps its value, every other new cell is empty, and the
\* two indexes the handler uses are inside the grid it has grown
C10_SetCellGrowsGrid ==
  \A r \in 0..MaxCellIndex, c \in 0..MaxCellIndex, v \in CellInputs :
    LET grown == EnsureRows(tableData, tableColumns, r, c)
        after == SetCell(tableData, tableColumns, r, c, v)
    IN /\ r + 1 \in DOMAIN grown
       /\ c + 1 \in DOMAIN EnsureColumns(grown[r + 1], c)
       /\ Len(after) >= r + 1
       /\ Len(after) >= Len(tableData)
       /\ Len(after[r + 1]) >= c + 1
       /\ after[r + 1][c + 1] = v
       /\ \A i \in 1..Len(after) :
            /\ i <= Len(tableData) => Len(after[i]) >= Len(tableData[i])
            /\ \A j \in 1..Len(after[i]) :
                 <<i, j>> # <<r + 1, c + 1>>
                   => after[i][j] =
                        IF i <= Len(tableData) /\ j <= Len(tableData[i])
                        THEN tableData[i][j]
                        ELSE <<>>

\* the first edit went to the last row, a later one to a row before it, and
\* a row is shorter than the column count set afterwards
C10_Witness ==
  /\ Len(tableData) = 3
  /\ tableData[3][1] = <<"x">>
  /\ tableData[1][1] = <<"x">>
  /\ tableData[2][1] = <<>>
  /\ Len(tableData[2]) = 1
  /\ Number(tableColumns) = 2

-----------------------------------------------------------------------------
(* Save and view: the builder holds a schema of fields of every kind of    *)
(* payload; the author types title and description and presses "Submit",   *)
(* the store answers, and the form view loads a stored item.               *)

EmptyDraft ==
  [newColumnName |-> <<"Q">>, newInternalName |-> <<>>,
   newColumnType |-> "text", required |-> FALSE, order |-> <<>>,
   options |-> <<>>, tableName |-> <<>>, tableRows |-> <<>>,
   tableColumns |-> <<>>, tableHeaders |-> <<>>, tableColumnDefs |-> <<>>,
   tableData |-> <<>>, plainHtmlInput |-> <<>>]

\* pending input as it stands when "Add Column" is pressed, one for each
\* kind of payload
SampleInputs ==
  {EmptyDraft,
   [EmptyDraft EXCEPT !.newColumnType = "dropdown",
                      !.required = TRUE,
                      !.options = << <<"Y", "e", "s">>, <<"N", ",", "\"">> >>],
   [EmptyDraft EXCEPT !.newColumnType = "htmltable",
                      !.newInternalName = <<"t", "1">>,
                      !.tableName = <<"T">>,
                      !.tableRows = <<"1">>,
                      !.tableColumns = <<"2">>,
                      !.tableHeaders = << <<"h">>, <<"k">> >>,
                      !.tableColumnDefs =
                         << [name |-> <<"h">>, type |-> "text"],
                            [name |-> <<"k">>, type |-> "dropdown",
                             options |-> << <<"o">> >>] >>],
   [EmptyDraft EXCEPT !.newColumnType = "htmlrender",
                      !.tableRows = <<"2">>,
                      !.tableColumns = <<"1">>,
                      !.tableHeaders = << <<"h">> >>,
                      !.tableColumnDefs =
                         << [name |-> <<"h">>, type |-> "yesno"] >>,
                      !.tableData = << << <<"t", "r", "u", "e">> >>,
                                       << <<>> >> >>],
   [EmptyDraft EXCEPT !.newColumnType = "plainhtml",
                      !.plainHtmlInput =
                         <<"<", "b", ">", "\\", "n", "\"", "\n", "\t">>]}

\* each of them with the order left empty and with the order typed
SampleDrafts ==
  {[d EXCEPT !.order = ord] : d \in SampleInputs, ord \in {<<>>, <<"2">>, <<"1">>}}

\* the schemas _addColumn builds from n of these inputs, one after another
RECURSIVE SchemasOfLength(_)
SchemasOfLength(n) ==
  IF n = 0 THEN {<<>>}
  ELSE {Append(cols, BuildColumn(d, cols)) :
          cols \in SchemasOfLength(n - 1), d \in SampleDrafts}

SaveTitles == {<<>>, <<" ">>, <<"F", "\"", "\\">>}

SaveDescriptions == {<<>>, <<"d", "\n">>}

\* the builder after a session that left a schema and no pending input
InitSave ==
  /\ InitInput
  /\ columns \in UNION {SchemasOfLength(n) : n \in 0..MaxSchema}

NextSave ==
  \/ \E v \in SaveTitles : setFormTitle(v)
  \/ \E v \in SaveDescriptions : setDescription(v)
  \/ Len(inFlight) + Len(items) < MaxSaves /\ submitForm
  \/ \E i \in 1..MaxSaves : addResolved(i)
  \/ \E i \in 1..MaxSaves : addRejected(i)
  \/ \E id \in 1..MaxSaves : eformLoadItems(id)

SpecSave == InitSave /\ [][NextSave]_vars

\* the fields of the document of a pending add or a stored item
DocumentFields(entry) == JsonParse(entry.ConfigurationJSON).fields

\* C8: the fields of the document save writes are the builder's fields in
\* ascending order, the fields of one order in the sequence they were added
C8_SavedFieldsStableSorted ==
  [][Len(inFlight') > Len(inFlight)
       => LET out == DocumentFields(inFlight'[Len(inFlight')])
              Orders == {columns[i].order : i \in 1..Len(columns)}
          IN /\ Len(out) = Len(columns)
             /\ \A i, j \in 1..Len(out) : i < j => out[i].order <= out[j].order
             /\ \A k \in Orders :
                  SelectSeq(out, LAMBDA f : f.order = k) =
                    SelectSeq(columns, LAMBDA f : f.order = k)]_vars

\* a save is pending of a schema whose fields were not added in order
C8_Witness ==
  /\ inFlight # <<>>
  /\ \E i, j \in 1..Len(columns) : i < j /\ columns[i].order > columns[j].order

\* C9: what the form view parses and sorts from the document save writes
\* is the title, the description and the order-sorted fields of the schema
\* that was saved, value by value
C9_RoundTrip ==
  [][Len(inFlight') > Len(inFlight)
       => LET parsed == EformParse(<<inFlight'[Len(inFlight')]>>)
          IN /\ parsed[1].formTitle = formTitle
             /\ parsed[1].description = description
             /\ parsed[1].fields = SortByOrder(columns)
             /\ EformSort(parsed) = <<SortByOrder(columns)>>]_vars

\* the view has loaded a stored form whose fields carry options, column
\* definitions with and without options, cell data and markup
C9_Witness ==
  /\ eformConfig # <<>>
  /\ ParsedConfig[1].formTitle = <<"F", "\"", "\\">>
  /\ SortedFields # <<>>
  /\ Len(SortedFields[1]) = 2
  /\ SortedFields[1][1].type = "plainhtml"
  /\ SortedFields[1][1].htmlContent =
       <<"<", "b", ">", "\\", "n", "\"", "\n", "\t">>
  /\ SortedFields[1][2].type = "htmltable"
  /\ "options" \notin DOMAIN SortedFields[1][2].tableColumnDefs[1]
  /\ SortedFields[1][2].tableColumnDefs[2].options = << <<"o">> >>

-----------------------------------------------------------------------------
(* Form view: the list holds forms the builder wrote and items of other     *)
(* origin; the user opens the view of an item and fills in the cells of its *)
(* table.                                                                   *)

\* pending input of one field of every type of the type dropdown, in the
\* order of the dropdown
ViewDrafts ==
  <<EmptyDraft,
    [EmptyDraft EXCEPT !.newColumnType = "multiline"],
    [EmptyDraft EXCEPT !.newColumnType = "number"],
    [EmptyDraft EXCEPT !.newColumnType = "currency"],
    [EmptyDraft EXCEPT !.newColumnType = "date"],
    [EmptyDraft EXCEPT !.newColumnType = "dropdown",
                       !.options = << <<"a">>, <<"b">> >>],
    [EmptyDraft EXCEPT !.newColumnType = "radio",
                       !.options = << <<"a">> >>],
    [EmptyDraft EXCEPT !.newColumnType = "checkbox",
                       !.options = << <<"a">> >>],
    [EmptyDraft EXCEPT !.newColumnType = "yesno"],
    [EmptyDraft EXCEPT !.newColumnType = "person"],
    [EmptyDraft EXCEPT !.newColumnType = "htmltable",
                       !.newInternalName = <<"t">>,
                       !.tableName = <<"T">>,
                       !.tableRows = <<"1">>,
                       !.tableColumns = <<"4">>,
                       !.tableHeaders =
                          << <<"y">>, <<"x">>, <<"k">>, <<"d">> >>,
                       !.tableColumnDefs =
                          << [name |-> <<"y">>, type |-> "yesno"],
                             [name |-> <<"x">>, type |-> "text"],
                             [name |-> <<"k">>, type |-> "checkbox",
                              options |-> << <<"a">>, <<"b">> >>],
                             [name |-> <<"d">>, type |-> "dropdown",
                              options |-> << <<"v">> >>] >>],
    [EmptyDraft EXCEPT !.newColumnType = "htmlrender",
                       !.newInternalName = <<"t">>,
                       !.tableRows = <<"2">>,
                       !.tableColumns = <<"2">>,
                       !.tableHeaders = << <<"y">>, <<"x">> >>,
                       !.tableColumnDefs =
                          << [name |-> <<"y">>, type |-> "yesno"],
                             [name |-> <<"x">>, type |-> "text"] >>,
                       !.tableData = << <<TextTrue, <<"v">> >>,
                                        << <<>> >> >>],
    [EmptyDraft EXCEPT !.newColumnType = "plainhtml",
                       !.plainHtmlInput = <<"<", "b", ">">>]>>

\* the schema _addColumn builds from these inputs, the n-th given the order n
ViewSchema ==
  [n \in 1..Len(ViewDrafts) |->
     BuildColumn([ViewDrafts[n] EXCEPT !.order = NatToDigits(n)], <<>>)]

\* a document written by another tool: a field of a type the form view does
\* not know between two it knows, the last a table whose definition has
\* neither column definitions nor cells
ForeignDocument ==
  JsonObject(
    <<[k |-> "formTitle", v |-> JsonText(<<"X">>)],
      [k |-> "fields",
       v |-> JsonArray(
         <<JsonObject(<<[k |-> "internalName", v |-> JsonText(<<"a">>)],
                        [k |-> "type", v |-> JsonWord("text")],
                        [k |-> "order", v |-> JsonNumber(1)]>>),
           JsonObject(<<[k |-> "internalName", v |-> JsonText(<<"s">>)],
                        [k |-> "type", v |-> JsonWord("signature")],
                        [k |-> "order", v |-> JsonNumber(2)]>>),
           JsonObject(<<[k |-> "internalName", v |-> JsonText(<<"r">>)],
                        [k |-> "type", v |-> JsonWord("htmlrender")],
                        [k |-> "order", v |-> JsonNumber(3)],
                        [k |-> "tableRows", v |-> JsonNumber(1)],
                        [k |-> "tableColumns", v |-> JsonNumber(1)]>>)>>)]>>)

\* the items of the list: a form of every field type as save writes it, the
\* foreign document, a text that is no JSON, an empty text, a null column
\* and an item without the column
ViewItems ==
  <<[Id |-> 1, Title |-> <<"F">>, Status |-> "Active",
     ConfigurationJSON |->
       JsonStringify([formTitle |-> <<"F">>, description |-> <<>>,
                      fields |-> SortByOrder(ViewSchema)])],
    [Id |-> 2, Title |-> <<"X">>, Status |-> "Active",
     ConfigurationJSON |-> ForeignDocument],
    [Id |-> 3, Title |-> <<"M">>, Status |-> "Active",
     ConfigurationJSON |-> Malformed(<<"{", "f">>)],
    [Id |-> 4, Title |-> <<"E">>, Status |-> "Active",
     ConfigurationJSON |-> Malformed(<<>>)],
    [Id |-> 5, Title |-> <<"N">>, Status |-> "Active",
     ConfigurationJSON |-> NullColumn],
    [Id |-> 6, Title |-> <<"U">>, Status |-> "Active"]>>

InitViewStore ==
  /\ InitParts
  /\ columns = <<>>
  /\ items = ViewItems

\* the place of the htmltable field among the fields shown
ViewTableIndex ==
  CHOOSE n \in 1..Len(ViewDrafts) : ViewDrafts[n].newColumnType = "htmltable"

\* what the user does to the input of a cell: the text typed or picked, and
\* for a check box the tick and the option it belongs to
ViewCellEvents ==
  {[value |-> <<>>, checked |-> FALSE, option |-> <<"a">>],
   [value |-> <<>>, checked |-> FALSE, option |-> <<"b">>],
   [value |-> <<"v">>, checked |-> TRUE, option |-> <<"a">>],
   [value |-> <<"v">>, checked |-> TRUE, option |-> <<"b">>]}

NextView ==
  \/ \E id \in 1..(Len(ViewItems) + 1) : eformLoadItems(id)
  \/ \E r \in 0..1, c \in 0..(MaxCellIndex + 1), e \in ViewCellEvents :
       cellChange(ViewTableIndex, r, c, e.value, e.checked, e.option)

SpecView == InitViewStore /\ [][NextView]_vars

\* what the form view shows in the current state
Rendered == EformRender(eformConfig, formData)

\* C11: a form whose fields all have one of the thirteen types of the type
\* dropdown is shown with one control for each field, none of them missing
C11_OneControlPerField ==
  (/\ SortedFields # <<>>
   /\ \A i \in 1..Len(SortedFields[1]) : SortedFields[1][i].type \in ColumnTypes)
  => /\ Len(Controls(Rendered)) = Len(SortedFields[1])
     /\ \A i \in 1..Len(SortedFields[1]) :
          /\ Rendered.elements[i] # NoControl
          /\ Rendered.elements[i].name = SortedFields[1][i].internalName

\* the fields of a schema whose type is one of the type dropdown
RegisteredFields(fields) == SelectSeq(fields, LAMBDA f : f.type \in ColumnTypes)

\* C12: a field of a type that is not registered gets no control and the
\* render does not throw; the controls shown are those of the schema without
\* that field; and the answers change only when a view is opened or a cell
\* of an htmltable field is edited, then in the one entry of that cell
C12_UnknownTypeRendersNothing ==
  /\ [](SortedFields # <<>> =>
          /\ ~Rendered.threw
          /\ \A i \in 1..Len(SortedFields[1]) :
               SortedFields[1][i].type \notin ColumnTypes
                 => Rendered.elements[i] = NoControl
          /\ Controls(Rendered) =
               SelectSeq([i \in 1..Len(RegisteredFields(SortedFields[1])) |->
                            RenderDynamicField(RegisteredFields(SortedFields[1])[i],
                                               formData)],
                         LAMBDA e : e # NoControl))
  /\ [][formData' # formData =>
          \/ formData' = <<>>
          \/ /\ eformConfig' = eformConfig
             /\ \E i \in 1..Len(SortedFields[1]) :
                  /\ SortedFields[1][i].type = "htmltable"
                  /\ \E r \in 0..(SortedFields[1][i].tableRows - 1),
                        c \in 0..(SortedFields[1][i].tableColumns - 1) :
                       LET name == FormDataKey(SortedFields[1][i].internalName, r, c)
                       IN /\ DOMAIN formData' = DOMAIN formData \cup {name}
                          /\ \A k \in DOMAIN formData \ {name} :
                               formData'[k] = formData[k]]_vars

\* the view shows a form with a field of an unknown type between two fields
\* it knows, and shows the two
C12_Witness ==
  /\ SortedFields # <<>>
  /\ Len(SortedFields[1]) = 3
  /\ SortedFields[1][2].type = "signature"
  /\ Len(Controls(Rendered)) = 2
  /\ Controls(Rendered)[1].name = <<"a">>
  /\ Controls(Rendered)[2].name = <<"r">>

\* the text an htmlrender field has to show in row r, column c (from 0)
StoredDisplay(field, r, c) ==
  LET present == /\ "tableData" \in DOMAIN field
                 /\ r + 1 \in 1..Len(field.tableData)
                 /\ c + 1 \in 1..Len(field.tableData[r + 1])
      cell == IF present THEN field.tableData[r + 1][c + 1] ELSE <<>>
      yesno == /\ "tableColumnDefs" \in DOMAIN field
               /\ c + 1 \in 1..Len(field.tableColumnDefs)
               /\ field.tableColumnDefs[c + 1].type = "yesno"
  IN IF yesno /\ cell = <<>> THEN TextFalse ELSE cell

\* C14: every cell an htmlrender field shows is the stored cell, empty when
\* the grid has none, "false" for an empty cell of a yesno column; and the
\* field is shown the same whatever answer is entered under the name of any
\* of its cells
C14_RenderIgnoresAnswers ==
  SortedFields # <<>> =>
    \A i \in 1..Len(SortedFields[1]) :
      LET field == SortedFields[1][i]
          shown == RenderDynamicField(field, formData)
      IN field.type = "htmlrender" =>
           /\ shown = RenderDynamicField(field, <<>>)
           /\ \A r \in 0..(field.tableRows - 1), c \in 0..(field.tableColumns - 1) :
                /\ shown.cells[r + 1][c + 1] = StoredDisplay(field, r, c)
                /\ \A v \in {<<>>, TextTrue, <<"z">>} :
                     RenderDynamicField(
                       field,
                       SetVal(formData, FormDataKey(field.internalName, r, c), v))
                     = shown

\* the view shows an htmlrender field with a full and a short row; an
\* answer is entered under the name of its first cell, which shows "true"
\* while the answer is "false"
C14_Witness ==
  /\ SortedFields # <<>>
  /\ \E i \in 1..Len(SortedFields[1]) :
       /\ SortedFields[1][i].type = "htmlrender"
       /\ "tableData" \in DOMAIN SortedFields[1][i]
       /\ SortedFields[1][i].tableData = << <<TextTrue, <<"v">> >>, << <<>> >> >>
       /\ FormDataKey(SortedFields[1][i].internalName, 0, 0) \in DOMAIN formData
       /\ formData[FormDataKey(SortedFields[1][i].internalName, 0, 0)] = TextFalse
       /\ Rendered.elements[i].cells =
            << <<TextTrue, <<"v">> >>, <<TextFalse, <<>> >> >>

\* C20: when the item loaded has a ConfigurationJSON that is no JSON, is
\* null or is missing, the view throws nothing and shows no field control
C20_BadDocumentRendersNothing ==
  (/\ eformConfig # <<>>
   /\ \/ "ConfigurationJSON" \notin DOMAIN eformConfig[1]
      \/ eformConfig[1].ConfigurationJSON.t \in {"none", "malformed"})
  => /\ ~Rendered.threw
     /\ Rendered.elements = <<>>
     /\ Controls(Rendered) = <<>>

\* the view has loaded an item whose ConfigurationJSON is no JSON
C20_Witness ==
  /\ eformConfig # <<>>
  /\ "ConfigurationJSON" \in DOMAIN eformConfig[1]
  /\ eformConfig[1].ConfigurationJSON.t = "malformed"
  /\ eformConfig[1].ConfigurationJSON.v # <<>>
  /\ Rendered.loading

-----------------------------------------------------------------------------
(* Cells of yes/no columns: an author enters the cells of an HTML Render    *)
(* field in the builder, and a user fills in a stored form with two tables. *)

\* pending input of an htmltable and of an htmlrender field with a yesno
\* column, a cell that holds "true" and cells that are empty or missing
GridDrafts ==
  <<[EmptyDraft EXCEPT !.newColumnType = "htmltable",
                       !.newInternalName = <<"g">>,
                       !.order = <<"1">>,
                       !.tableName = <<"T">>,
                       !.tableRows = <<"2">>,
                       !.tableColumns = <<"1">>,
                       !.tableHeaders = << <<"y">> >>,
                       !.tableColumnDefs =
                          << [name |-> <<"y">>, type |-> "yesno"] >>,
                       !.tableData = << <<TextTrue>> >>],
    [EmptyDraft EXCEPT !.newColumnType = "htmlrender",
                       !.newInternalName = <<"h">>,
                       !.order = <<"2">>,
                       !.tableRows = <<"3">>,
                       !.tableColumns = <<"1">>,
                       !.tableHeaders = << <<"y">> >>,
                       !.tableColumnDefs =
                          << [name |-> <<"y">>, type |-> "yesno"] >>,
                       !.tableData = << <<TextTrue>>, << <<>> >> >>]>>

GridItems ==
  <<[Id |-> 1, Title |-> <<"G">>, Status |-> "Active",
     ConfigurationJSON |->
       JsonStringify([formTitle |-> <<"G">>, description |-> <<>>,
                      fields |-> SortByOrder(
                        [n \in 1..Len(GridDrafts) |->
                           BuildColumn(GridDrafts[n], <<>>)])])]>>

InitGrid ==
  /\ InitParts
  /\ columns = <<>>
  /\ items = GridItems

NextGrid ==
  \/ eformLoadItems(1)
  \/ \E r \in 0..1, checked \in BOOLEAN : cellChange(1, r, 0, <<>>, checked, <<>>)
  \/ setNewColumnType("htmlrender")
  \/ \E v \in {<<"1">>, <<"2">>} : setTableRows(v)
  \/ setTableColumnsRender(<<"2">>)
  \/ setCurrentHeaderType("yesno")
  \/ setCurrentHeaderInput(<<"h">>)
  \/ addTableHeader
  \/ \E r \in 0..1, c \in 0..1, v \in {<<>>, TextTrue} : setTableCell(r, c, v)

SpecGrid == InitGrid /\ [][NextGrid]_vars

\* the cell of a grid at row r, column c (from 0), empty where the grid has
\* no such cell
CellOrEmpty(data, r, c) ==
  IF r + 1 \in 1..Len(data) /\ c + 1 \in 1..Len(data[r + 1])
  THEN data[r + 1][c + 1]
  ELSE <<>>

\* column c (from 0) has a definition, of type yesno
IsYesNoColumn(defs, c) == c + 1 \in 1..Len(defs) /\ defs[c + 1].type = "yesno"

\* C13: a cell of a yesno column is never shown with the empty text, and
\* reads "false" when it has no value: in the htmltable of the form view
\* (no answer, or an empty one, and no stored cell, or an empty one), in the
\* htmlrender of the form view and in the cell grid of the builder (no
\* stored cell, or an empty one)
C13_YesNoDefaultsToFalse ==
  /\ SortedFields # <<>> =>
       \A i \in 1..Len(SortedFields[1]) :
         LET field == SortedFields[1][i]
             shown == Rendered.elements[i]
         IN field.type \in {"htmltable", "htmlrender"} =>
              \A r \in 0..(field.tableRows - 1), c \in 0..(field.tableColumns - 1) :
                LET name == FormDataKey(field.internalName, r, c)
                    stored == CellOrEmpty(field.tableData, r, c)
                    value == IF field.type = "htmltable"
                             THEN shown.cells[r + 1][c + 1].value
                             ELSE shown.cells[r + 1][c + 1]
                    unset == IF field.type = "htmltable" /\ name \in DOMAIN formData
                             THEN formData[name] = <<>>
                             ELSE stored = <<>>
                IN IsYesNoColumn(field.tableColumnDefs, c) =>
                     /\ value # <<>>
                     /\ unset => value = TextFalse
  /\ CellGridShown =>
       \A r \in 0..(Number(tableRows) - 1), c \in 0..(Number(tableColumns) - 1) :
         IsYesNoColumn(tableColumnDefs, c) =>
           /\ BuilderCellValue(r, c) # <<>>
           /\ CellOrEmpty(tableData, r, c) = <<>> => BuilderCellValue(r, c) = TextFalse

\* the form view shows both tables with no answer entered, each with a cell
\* that holds "true" and one that is missing, and the cell grid of the
\* builder shows an empty cell of a yesno column beside one that is "true"
C13_Witness ==
  /\ SortedFields # <<>>
  /\ formData = <<>>
  /\ Rendered.elements[1].cells[1][1].value = TextTrue
  /\ Rendered.elements[1].cells[2][1].value = TextFalse
  /\ Rendered.elements[2].cells = << <<TextTrue>>, <<TextFalse>>, <<TextFalse>> >>
  /\ CellGridShown
  /\ IsYesNoColumn(tableColumnDefs, 0)
  /\ IsYesNoColumn(tableColumnDefs, 1)
  /\ tableData = << <<TextTrue, <<>> >> >>
  /\ BuilderCellValue(0, 1) = TextFalse

-----------------------------------------------------------------------------
(* Claims on save, checked on the saves of SpecSave                         *)

\* the document of a pending add or a stored item
Document(entry) == JsonParse(entry.ConfigurationJSON)

\* C15: while the title is blank or the schema has no field, "Submit" sends
\* nothing and changes nothing; whenever an add call is made the title is
\* not blank and the schema has a field; and every document sent or stored
\* has a title that is not blank and at least one field
C15_NothingSavedWithoutTitleOrField ==
  /\ [](Trim(formTitle) = <<>> \/ Len(columns) = 0 => ~ENABLED <<submitForm>>_vars)
  /\ [][Len(inFlight') > Len(inFlight) =>
          Trim(formTitle) # <<>> /\ Len(columns) > 0]_vars
  /\ [](\A i \in 1..Len(inFlight) :
          /\ Trim(Document(inFlight[i]).formTitle) # <<>>
          /\ Len(Document(inFlight[i]).fields) > 0)
  /\ [](\A i \in 1..Len(items) :
          /\ Trim(Document(items[i]).formTitle) # <<>>
          /\ Len(Document(items[i]).fields) > 0)

\* the title is typed as one blank over a schema with fields, and nothing
\* is in flight or stored
C15_Witness ==
  /\ formTitle = <<" ">>
  /\ Len(columns) > 0
  /\ inFlight = <<>>
  /\ items = <<>>

\* C16: the step in which an add call fails takes that call away and makes
\* no other; nothing is stored; the schema of the builder (title,
\* description, fields) and the rest of the builder stay as they are; and
\* the parent is not notified: no refresh is started, no dialog closed
C16_FailedSaveChangesNothing ==
  [][(Len(inFlight') < Len(inFlight) /\ items' = items) =>
       /\ \E i \in 1..Len(inFlight) : inFlight' = FilterOutIndex(inFlight, i - 1)
       /\ formTitle' = formTitle
       /\ description' = description
       /\ columns' = columns
       /\ UNCHANGED <<builderVars, viewVars, adminVars>>]_vars

\* an add call is in flight for a schema with a title, a description and
\* two fields, and nothing is stored: the state in which the call fails
C16_Witness ==
  /\ Len(inFlight) = 1
  /\ items = <<>>
  /\ Trim(formTitle) # <<>>
  /\ description # <<>>
  /\ Len(columns) = 2
  /\ Document(inFlight[1]).formTitle = formTitle
  /\ Document(inFlight[1]).fields = SortByOrder(columns)

-----------------------------------------------------------------------------
(* Saves one upon another: the author presses "Submit" again before the     *)
(* list has answered.                                                       *)

DoubleTitles == {<<>>, <<"F">>, <<"G">>}

InitDouble ==
  /\ InitInput
  /\ columns \in SchemasOfLength(1)

NextDouble ==
  \/ \E v \in DoubleTitles : setFormTitle(v)
  \/ Len(inFlight) + Len(items) < MaxPending /\ submitForm
  \/ \E i \in 1..MaxPending : addResolved(i)
  \/ \E i \in 1..MaxPending : addRejected(i)

SpecDouble == InitDouble /\ [][NextDouble]_vars

\* C17: with a title and a field "Submit" sends an add call whether or not
\* other calls are in flight, the call is added to those in flight, and
\* each call in flight can be answered by the list storing its document
C17_SecondSaveNotPrevented ==
  /\ [](Trim(formTitle) # <<>> /\ Len(columns) > 0 =>
          ENABLED (submitForm /\ inFlight' = Append(inFlight, inFlight'[Len(inFlight')])))
  /\ [](\A i \in 1..Len(inFlight) :
          ENABLED (addResolved(i) /\ Len(items') = Len(items) + 1))

\* the list holds two items with the same document, saved from one session
\* of the builder
C17_Witness ==
  /\ Len(items) = 2
  /\ items[1].Id # items[2].Id
  /\ items[1].ConfigurationJSON = items[2].ConfigurationJSON
  /\ items[1].Title = items[2].Title

-----------------------------------------------------------------------------
(* List browse: the list holds items of every kind when the web part is     *)
(* mounted; its load is answered and finishes, and the user opens dialogs.  *)

\* a form with one text field as save writes it
BrowseDocument(title, text) ==
  JsonStringify([formTitle |-> title, description |-> text,
                 fields |-> <<BuildColumn(EmptyDraft, <<>>)>>])

\* a document of another tool, without title and description
UntitledDocument ==
  JsonObject(<<[k |-> "fields", v |-> JsonArray(<<>>)]>>)

\* what the items of the list can hold beside their Id
BrowseSamples ==
  <<[Title |-> <<"B">>, Status |-> "Active",
     ConfigurationJSON |-> BrowseDocument(<<"B">>, <<"d">>)],
    [Title |-> <<"a">>, Status |-> "Active",
     ConfigurationJSON |-> BrowseDocument(<<"a">>, <<>>)],
    [Title |-> <<"A">>, Status |-> "Active",
     ConfigurationJSON |-> BrowseDocument(<<"A">>, <<>>)],
    [Title |-> <<"c">>, Status |-> "Inactive",
     ConfigurationJSON |-> BrowseDocument(<<"c">>, <<>>)],
    [Title |-> <<"n">>, Status |-> "Active", ConfigurationJSON |-> NullColumn],
    [Title |-> <<"e">>, Status |-> "Active",
     ConfigurationJSON |-> Malformed(<<>>)],
    [Title |-> <<"u">>, Status |-> "Active",
     ConfigurationJSON |-> UntitledDocument],
    [Title |-> <<"m">>, Status |-> "Active",
     ConfigurationJSON |-> Malformed(<<"{">>)],
    [Title |-> <<"o">>, Status |-> "Active"]>>

\* the lists of n items, the k-th with the Id k
BrowseLists(n) ==
  {[k \in 1..n |-> [Id |-> k] @@ BrowseSamples[pick[k]]] :
     pick \in [1..n -> 1..Len(BrowseSamples)]}

InitBrowse ==
  /\ InitParts
  /\ columns = <<>>
  /\ items \in UNION {BrowseLists(n) : n \in 0..MaxItems}

NextBrowse ==
  \/ \E i \in 1..Len(loads) : listAnswered(i)
  \/ \E i \in 1..Len(loads) : loadItemsResolved(i)
  \/ \E i \in 1..Len(loads) : loadItemsRejected(i)
  \/ onNewFormClick
  \/ dismissNewForm
  \/ \E k \in 1..MaxItems : onViewClick(k)
  \/ closeDialogs
  \/ isViewDialogOpen /\ selectedItem # <<>> /\ eformConfig = <<>>
       /\ eformLoadItems(selectedItem[1].Id)

SpecBrowse == InitBrowse /\ [][NextBrowse]_vars

\* the JSON text of the item can be parsed, or the item has none
Parses(item) ==
  \/ "ConfigurationJSON" \notin DOMAIN item
  \/ item.ConfigurationJSON.t # "malformed"
  \/ item.ConfigurationJSON.v = <<>>

\* C18: when a load finishes, every item of the answer whose JSON text can
\* be parsed (or that has none) has its summary in the browse list, whether
\* or not the text of another item of the answer fails to parse
C18_ParseFailureKeepsTheRest ==
  [][\A i \in 1..Len(loads) :
       (loads[i].reply # <<>> /\ loads' = FilterOutIndex(loads, i - 1)) =>
         \A k \in 1..Len(loads[i].reply[1]) :
           Parses(loads[i].reply[1][k]) =>
             \E n \in 1..Len(config') : config'[n].Id = loads[i].reply[1][k].Id]_vars

\* a character with a capital turned into its small letter
ToLowerCase(ch) ==
  IF \E k \in 1..26 : UpperCaseLetters[k] = ch
  THEN LowerCaseLetters[CHOOSE k \in 1..26 : UpperCaseLetters[k] = ch]
  ELSE ch

\* the place of a character of a title without capitals: blank, then the
\* small letters
FoldedWeight(ch) ==
  IF \E k \in 1..26 : LowerCaseLetters[k] = ch
  THEN CHOOSE k \in 1..26 : LowerCaseLetters[k] = ch
  ELSE 0

\* title a comes before title b or equals it when capitals are ignored
RECURSIVE TitleLeq(_, _)
TitleLeq(a, b) ==
  IF a = <<>> THEN TRUE
  ELSE IF b = <<>> THEN FALSE
  ELSE LET x == FoldedWeight(ToLowerCase(Head(a)))
           y == FoldedWeight(ToLowerCase(Head(b)))
       IN IF x # y THEN x < y ELSE TitleLeq(Tail(a), Tail(b))

\* the title and the description browse has to show for an item
ExpectedTitle(item) ==
  IF /\ "ConfigurationJSON" \in DOMAIN item
     /\ item.ConfigurationJSON.t = "object"
     /\ "formTitle" \in DOMAIN JsonParse(item.ConfigurationJSON)
  THEN JsonParse(item.ConfigurationJSON).formTitle
  ELSE UntitledForm

ExpectedDescription(item) ==
  IF /\ "ConfigurationJSON" \in DOMAIN item
     /\ item.ConfigurationJSON.t = "object"
     /\ "description" \in DOMAIN JsonParse(item.ConfigurationJSON)
  THEN JsonParse(item.ConfigurationJSON).description
  ELSE <<>>

\* C19: the list answers a load with the items whose Status is "Active", in
\* the order of the list; and when a load finishes whose answer holds no
\* text that fails to parse, the browse list has one summary for each item
\* of the answer and no other, each with the title of the item's document,
\* "Untitled Form" when the document or its title is missing, and with the
\* description or the empty text, and the summaries are in the order of
\* their titles with capitals ignored
C19_BrowseListsActiveFormsByTitle ==
  [][\A i \in 1..Len(loads) :
       /\ (loads[i].reply = <<>> /\ Len(loads') = Len(loads)
           /\ loads'[i].reply # <<>>) =>
            /\ \A k \in 1..Len(loads'[i].reply[1]) :
                 loads'[i].reply[1][k].Status = "Active"
            /\ \A k \in 1..Len(items) :
                 items[k].Status = "Active" =>
                   Cardinality({n \in 1..Len(loads'[i].reply[1]) :
                                  loads'[i].reply[1][n].Id = items[k].Id}) = 1
       /\ (/\ loads[i].reply # <<>>
           /\ loads' = FilterOutIndex(loads, i - 1)
           /\ \A k \in 1..Len(loads[i].reply[1]) : Parses(loads[i].reply[1][k])) =>
            LET reply == loads[i].reply[1]
            IN /\ Len(config') = Len(reply)
               /\ \A k \in 1..Len(reply) :
                    \E n \in 1..Len(config') :
                      config'[n] = [Id |-> reply[k].Id,
                                    formTitle |-> ExpectedTitle(reply[k]),
                                    description |-> ExpectedDescription(reply[k])]
               /\ \A m, n \in 1..Len(config') :
                    m < n => TitleLeq(config'[m].formTitle, config'[n].formTitle)]_vars

\* the load has finished for a list of a form titled "B" and a form titled
\* "a": the browse list shows "a" before "B"; and the list holds an item
\* that is not active
C19_Witness ==
  /\ loads = <<>>
  /\ Len(config) = 2
  /\ config[1] = [Id |-> 2, formTitle |-> <<"a">>, description |-> <<>>]
  /\ config[2] = [Id |-> 1, formTitle |-> <<"B">>, description |-> <<"d">>]

-----------------------------------------------------------------------------
(* Rejected fields: the author fills the choice panel or the table panel   *)
(* and presses "Add Column" with a label or a table that is not accepted.  *)

RejectLabels == {<<" ">>, <<"Q">>}

RejectTableNames == {<<" ">>, <<"T">>}

RejectRowInputs == {<<"0">>, <<"1">>}

NextReject ==
  \/ \E v \in RejectLabels : setNewColumnName(v)
  \/ \E t \in {"dropdown", "htmltable"} : setNewColumnType(t)
  \/ setNewChoiceValue(<<"a">>)
  \/ Len(options) < MaxOptions /\ addChoice
  \/ \E v \in RejectTableNames : setTableName(v)
  \/ \E v \in RejectRowInputs : setTableRows(v)
  \/ setTableColumnsTable(<<"1">>)
  \/ setCurrentHeaderInput(<<"h">>)
  \/ addTableHeader
  \/ Len(columns) < MaxSchema /\ addColumn

SpecReject == Init /\ [][NextReject]_vars

\* C21: while the label is empty or only white space, or the type is
\* htmltable and the table name is blank, rows or columns are below 1 or the
\* headers are not as many as the columns, "Add Column" changes nothing:
\* neither the schema nor any pending input
C21_RejectedAddChangesNothing ==
  []((\/ Trim(newColumnName) = <<>>
      \/ /\ newColumnType = "htmltable"
         /\ \/ Trim(tableName) = <<>>
            \/ Number(tableRows) < 1
            \/ Number(tableColumns) < 1
            \/ Len(tableHeaders) # Number(tableColumns))
       => ~ENABLED <<addColumn>>_vars)

\* the button is enabled for a label of one space with an option pending,
\* and for an htmltable of 0 rows with its header pending: both presses are
\* rejected
C21_Witness ==
  /\ ~AddColumnDisabled
  /\ \/ /\ newColumnName = <<" ">>
        /\ newColumnType = "dropdown"
        /\ options = << <<"a">> >>
     \/ /\ newColumnName = <<"Q">>
        /\ newColumnType = "htmltable"
        /\ tableName = <<"T">>
        /\ tableRows = <<"0">>
        /\ Len(tableColumnDefs) = 1

-----------------------------------------------------------------------------
(* Pending options: the author picks a choice type, types option values    *)
(* and presses "Add".                                                      *)

OptionValues ==
  {<<>>, <<" ">>, <<" ", "Y", "e", "s", " ">>, <<"N", "o">>,
   <<"\t", "a", " ", "b", "\n">>}

NextOption ==
  \/ \E t \in {"text"} \cup ChoiceTypes : setNewColumnType(t)
  \/ \E v \in OptionValues : setNewChoiceValue(v)
  \/ Len(options) < MaxOptions /\ addChoice

SpecOption == Init /\ [][NextOption]_vars

\* C22: "Add" changes nothing while the typed value is empty or only white
\* space; otherwise the pending list grows by one option at its end, the
\* typed value without the white space around it, and the options there
\* were keep their places
C22_AddChoiceAppendsTrimmed ==
  /\ [](Trim(newChoiceValue) = <<>> => ~ENABLED <<addChoice>>_vars)
  /\ [][addChoice
          => /\ Len(options') = Len(options) + 1
             /\ \A i \in 1..Len(options) : options'[i] = options[i]
             /\ \E a, b \in 0..Len(newChoiceValue) :
                  /\ \A i \in 1..a : newChoiceValue[i] \in WhiteSpace
                  /\ \A i \in (Len(newChoiceValue) - b + 1)..Len(newChoiceValue) :
                       newChoiceValue[i] \in WhiteSpace
                  /\ a + b < Len(newChoiceValue)
                  /\ newChoiceValue[a + 1] \notin WhiteSpace
                  /\ newChoiceValue[Len(newChoiceValue) - b] \notin WhiteSpace
                  /\ options'[Len(options')] =
                       SubSeq(newChoiceValue, a + 1, Len(newChoiceValue) - b)]_vars

\* " Yes " was added behind "a b", both without the white space around them
C22_Witness ==
  /\ options = << <<"a", " ", "b">>, <<"Y", "e", "s">> >>
  /\ newChoiceValue = <<>>

-----------------------------------------------------------------------------
(* Pending headers: the author sets the column count of the HTML Table     *)
(* panel, types header names, picks header types, enters header options    *)
(* and presses "Add Header".                                               *)

HeaderNames == {<<>>, <<" ">>, <<" ", "h">>, <<"k", " ">>}

NextHeader ==
  \/ setNewColumnType("htmltable")
  \/ setTableColumnsTable(<<"2">>)
  \/ \E v \in HeaderNames : setCurrentHeaderInput(v)
  \/ \E t \in {"dropdown", "yesno"} : setCurrentHeaderType(t)
  \/ \E v \in {<<>>, <<" ", "a">>} : setCurrentHeaderOptionInput(v)
  \/ Len(currentHeaderOptions) < MaxOptions /\ addHeaderOption
  \/ removeHeaderOption(0)
  \/ addTableHeader
  \/ \E i \in 0..1 : removeTableHeader(i)

SpecHeader == Init /\ [][NextHeader]_vars

\* C23: "Add Header" changes nothing while the header name is empty or only
\* white space; otherwise the trimmed name is appended to the header names
\* and one definition to the column definitions, with that name, the pending
\* type ("text" when none is pending) and the pending options when there is
\* at least one, and no options otherwise; the pending name and options are
\* then empty and the pending type is "text"
C23_AddHeaderAppendsDefinition ==
  /\ [](Trim(currentHeaderInput) = <<>> => ~ENABLED <<addTableHeader>>_vars)
  /\ [][addTableHeader
          => LET def == tableColumnDefs'[Len(tableColumnDefs')]
             IN /\ tableHeaders' = Append(tableHeaders, Trim(currentHeaderInput))
                /\ tableColumnDefs' = Append(tableColumnDefs, def)
                /\ def.name = Trim(currentHeaderInput)
                /\ def.name[1] \notin WhiteSpace
                /\ def.name[Len(def.name)] \notin WhiteSpace
                /\ currentHeaderType = "" => def.type = "text"
                /\ currentHeaderType # "" => def.type = currentHeaderType
                /\ "options" \in DOMAIN def <=> Len(currentHeaderOptions) >= 1
                /\ "options" \in DOMAIN def => def.options = currentHeaderOptions
                /\ currentHeaderInput' = <<>>
                /\ currentHeaderType' = "text"
                /\ currentHeaderOptions' = <<>>]_vars

\* a header added with no type pending and a dropdown header with its option
C23_Witness ==
  /\ Len(tableColumnDefs) = 2
  /\ tableHeaders = << <<"h">>, <<"k">> >>
  /\ DOMAIN tableColumnDefs[1] = {"name", "type"}
  /\ tableColumnDefs[1].name = <<"h">>
  /\ tableColumnDefs[1].type = "text"
  /\ DOMAIN tableColumnDefs[2] = {"name", "type", "options"}
  /\ tableColumnDefs[2].type = "dropdown"
  /\ tableColumnDefs[2].options = << <<"a">> >>
  /\ currentHeaderInput = <<>>
  /\ currentHeaderType = "text"
  /\ currentHeaderOptions = <<>>

-----------------------------------------------------------------------------
(* Field payload: the author adds fields of every type, filling the panel  *)
(* each type shows.                                                        *)

\* the payload keys of a table field
TablePayloadKeys ==
  {"tableName", "tableRows", "tableColumns", "tableColumnDefs", "tableData"}

NextPayload ==
  \/ setNewColumnName(<<"Q">>)
  \/ \E t \in ColumnTypes : setNewColumnType(t)
  \/ setNewChoiceValue(<<"a">>)
  \/ options = <<>> /\ addChoice
  \/ setPlainHtmlInput(<<"p">>)
  \/ setTableName(<<"T">>)
  \/ setTableRows(<<"1">>)
  \/ setTableColumnsTable(<<"1">>)
  \/ setCurrentHeaderInput(<<"h">>)
  \/ addTableHeader
  \/ Len(columns) < MaxPayload /\ addColumn

SpecPayload == Init /\ [][NextPayload]_vars

\* C24: every field of the schema has options exactly when it is a
\* dropdown, radio or checkbox field, htmlContent exactly when it is a
\* plainhtml field, and each key of the table payload exactly when it is an
\* htmltable or htmlrender field
C24_PayloadMatchesType ==
  \A i \in 1..Len(columns) :
    /\ "options" \in DOMAIN columns[i] <=> columns[i].type \in ChoiceTypes
    /\ "htmlContent" \in DOMAIN columns[i] <=> columns[i].type = "plainhtml"
    /\ \A k \in TablePayloadKeys :
         k \in DOMAIN columns[i]
           <=> columns[i].type \in {"htmltable", "htmlrender"}

\* an htmltable field with the table payload and neither options nor
\* htmlContent, added while an option typed for a dropdown was pending
C24_Witness ==
  /\ Len(columns) = 1
  /\ columns[1].type = "htmltable"
  /\ DOMAIN columns[1] =
       {"label", "internalName", "type", "required", "order", "tableHeaders"}
         \cup TablePayloadKeys
  /\ columns[1].tableName = <<"T">>
  /\ plainHtmlInput = <<>>

-----------------------------------------------------------------------------
(* Internal names met twice: an author adds HTML Table fields under one    *)
(* label, and a user fills in a stored form that has two such fields.      *)

\* pending input of an htmltable field labelled "Q", of one text cell
CollideDraft ==
  [EmptyDraft EXCEPT !.newColumnType = "htmltable",
                     !.tableName = <<"T">>,
                     !.tableRows = <<"1">>,
                     !.tableColumns = <<"1">>,
                     !.tableHeaders = << <<"h">> >>,
                     !.tableColumnDefs = << [name |-> <<"h">>, type |-> "text"] >>]

\* the schema after "Add Column" was pressed twice on that input
CollideSchema ==
  LET first == BuildColumn(CollideDraft, <<>>)
  IN <<first, BuildColumn(CollideDraft, <<first>>)>>

CollideItems ==
  <<[Id |-> 1, Title |-> <<"G">>, Status |-> "Active",
     ConfigurationJSON |->
       JsonStringify([formTitle |-> <<"G">>, description |-> <<>>,
                      fields |-> SortByOrder(CollideSchema)])]>>

InitCollide ==
  /\ InitParts
  /\ columns = <<>>
  /\ items = CollideItems

NextCollide ==
  \/ setNewColumnName(<<"Q">>)
  \/ setNewColumnType("htmltable")
  \/ setTableName(<<"T">>)
  \/ setTableRows(<<"1">>)
  \/ setTableColumnsTable(<<"1">>)
  \/ setCurrentHeaderInput(<<"h">>)
  \/ addTableHeader
  \/ Len(columns) < MaxSchema /\ addColumn
  \/ eformLoadItems(1)
  \/ \E i \in 1..Len(CollideSchema), v \in {<<>>, <<"x">>, <<"y">>} :
       cellChange(i, 0, 0, v, FALSE, <<>>)

SpecCollide == InitCollide /\ [][NextCollide]_vars

\* C25: a press of "Add Column" that passes the label and table checks adds
\* the field whether or not the schema already has its internal name; and in
\* a form shown with two htmltable fields of one internal name, the cells at
\* one row and column of the two have the same key and show the same answer
\* once one of them was edited
C25_InternalNameMayCollide ==
  /\ []((/\ ~AddColumnDisabled
         /\ Trim(newColumnName) # <<>>
         /\ ~TableInvalid
         /\ Len(columns) < MaxSchema)
          => ENABLED <<addColumn>>_vars)
  /\ [](SortedFields # <<>> =>
          \A i, j \in 1..Len(SortedFields[1]) :
            LET a == SortedFields[1][i]
                b == SortedFields[1][j]
            IN (/\ a.type = "htmltable"
                /\ b.type = "htmltable"
                /\ a.internalName = b.internalName)
                 => \A r \in 0..(a.tableRows - 1), c \in 0..(a.tableColumns - 1) :
                      /\ RenderCell(a, formData, r, c).name =
                           RenderCell(b, formData, r, c).name
                      /\ RenderCell(a, formData, r, c).name \in DOMAIN formData
                           => /\ RenderCell(a, formData, r, c).value =
                                   formData[RenderCell(a, formData, r, c).name]
                              /\ RenderCell(b, formData, r, c).value =
                                   formData[RenderCell(a, formData, r, c).name])

\* the builder's schema has two htmltable fields named "Q", and in the form
\* shown the one answer "x" is the value of the cell of each of its two
\* fields named "Q"
C25_Witness ==
  /\ Len(columns) = 2
  /\ columns[1].type = "htmltable"
  /\ columns[2].type = "htmltable"
  /\ columns[1].internalName = <<"Q">>
  /\ columns[2].internalName = <<"Q">>
  /\ SortedFields # <<>>
  /\ Len(SortedFields[1]) = 2
  /\ SortedFields[1][1].internalName = SortedFields[1][2].internalName
  /\ SortedFields[1][1].order # SortedFields[1][2].order
  /\ DOMAIN formData = {<<"Q", "-", "0", "-", "0">>}
  /\ RenderCell(SortedFields[1][1], formData, 0, 0).value = <<"x">>
  /\ RenderCell(SortedFields[1][2], formData, 0, 0).value = <<"x">>

-----------------------------------------------------------------------------
(* Rows of the cell grid *)

-----------------------------------------------------------------------------
(* Answer keys: a user fills in a stored form with a text field and two    *)
(* HTML Table fields whose internal names, "Q" and "Q-1", differ by what   *)
(* looks like a row index.                                                 *)

\* greatest row and column index whose keys are compared
MaxKeyIndex == 10

KeysDrafts ==
  <<[EmptyDraft EXCEPT !.newInternalName = <<"t">>, !.order = <<"1">>],
    [EmptyDraft EXCEPT !.newColumnType = "htmltable",
                       !.order = <<"2">>,
                       !.tableName = <<"T">>,
                       !.tableRows = <<"2">>,
                       !.tableColumns = <<"2">>,
                       !.tableHeaders = << <<"h">>, <<"k">> >>,
                       !.tableColumnDefs =
                          << [name |-> <<"h">>, type |-> "text"],
                             [name |-> <<"k">>, type |-> "text"] >>],
    [EmptyDraft EXCEPT !.newColumnType = "htmltable",
                       !.newInternalName = <<"Q", "-", "1">>,
                       !.order = <<"3">>,
                       !.tableName = <<"U">>,
                       !.tableRows = <<"1">>,
                       !.tableColumns = <<"1">>,
                       !.tableHeaders = << <<"h">> >>,
                       !.tableColumnDefs =
                          << [name |-> <<"h">>, type |-> "text"] >>]>>

KeysItems ==
  <<[Id |-> 1, Title |-> <<"K">>, Status |-> "Active",
     ConfigurationJSON |->
       JsonStringify([formTitle |-> <<"K">>, description |-> <<>>,
                      fields |-> SortByOrder(
                        [n \in 1..Len(KeysDrafts) |->
                           BuildColumn(KeysDrafts[n], <<>>)])])]>>

InitKeys ==
  /\ InitParts
  /\ columns = <<>>
  /\ items = KeysItems

NextKeys ==
  \/ eformLoadItems(1)
  \/ \E i \in 1..Len(KeysDrafts), r \in 0..1, c \in 0..1, v \in {<<>>, <<"x">>} :
       cellChange(i, r, c, v, FALSE, <<>>)

SpecKeys == InitKeys /\ [][NextKeys]_vars

\* the internal names of the htmltable fields of the form shown
TableFieldNames ==
  IF SortedFields = <<>> THEN {}
  ELSE {SortedFields[1][i].internalName :
          i \in {n \in 1..Len(SortedFields[1]) :
                   SortedFields[1][n].type = "htmltable"}}

\* C27: an edit of cell (r, c) of an htmltable field sets the answer whose
\* key is the field's internal name, r and c joined by "-", keeps every
\* other answer and the loaded item; and the cells of htmltable fields of
\* differing internal names all have keys of their own, one for each name,
\* row and column
C27_CellEditSetsOneAnswer ==
  /\ [][\A i \in 1..Len(KeysDrafts), r \in 0..1, c \in 0..1, v \in {<<>>, <<"x">>} :
          cellChange(i, r, c, v, FALSE, <<>>)
            => LET key == SortedFields[1][i].internalName
                            \o <<"-">> \o NatToDigits(r)
                            \o <<"-">> \o NatToDigits(c)
               IN /\ eformConfig' = eformConfig
                  /\ DOMAIN formData' = DOMAIN formData \cup {key}
                  /\ formData'[key] = v
                  /\ \A k \in DOMAIN formData :
                       k # key => formData'[k] = formData[k]]_vars
  /\ [](Cardinality({FormDataKey(n, r, c) :
                       n \in TableFieldNames,
                       r \in 0..MaxKeyIndex, c \in 0..MaxKeyIndex})
          = Cardinality(TableFieldNames)
              * (MaxKeyIndex + 1) * (MaxKeyIndex + 1))

\* cell (1, 0) of the field "Q" and cell (0, 0) of the field "Q-1" were
\* edited: the answers are two, under "Q-1-0" and "Q-1-0-0"
C27_Witness ==
  /\ TableFieldNames = {<<"Q">>, <<"Q", "-", "1">>}
  /\ DOMAIN formData =
       {<<"Q", "-", "1", "-", "0">>, <<"Q", "-", "1", "-", "0", "-", "0">>}
  /\ formData[<<"Q", "-", "1", "-", "0">>] = <<"x">>
  /\ formData[<<"Q", "-", "1", "-", "0", "-", "0">>] = <<>>

-----------------------------------------------------------------------------
(* Pending headers and column definitions side by side *)

\* C28: the pending header names and the pending column definitions are as
\* many, and each definition has the name at its place in the header names
C28_HeadersMatchColumnDefs ==
  /\ Len(tableHeaders) = Len(tableColumnDefs)
  /\ \A i \in 1..Len(tableColumnDefs) :
       i <= Len(tableHeaders) => tableColumnDefs[i].name = tableHeaders[i]

-----------------------------------------------------------------------------
(* Schema under later edits: the author adds choice and HTML Render        *)
(* fields, goes on editing the pending options, headers and cells, and     *)
(* presses "Submit" while the list turns every save down.                  *)

\* pending input of a dropdown field and of an htmlrender field put before
\* it by its order
FrameDrafts ==
  <<[EmptyDraft EXCEPT !.newColumnType = "dropdown",
                       !.options = << <<"a">> >>],
    [EmptyDraft EXCEPT !.newColumnType = "htmlrender",
                       !.order = <<"0">>,
                       !.tableRows = <<"1">>,
                       !.tableColumns = <<"1">>,
                       !.tableHeaders = << <<"h">> >>,
                       !.tableColumnDefs =
                          << [name |-> <<"h">>, type |-> "text"] >>,
                       !.tableData = << << <<"x">> >> >>]>>

\* the schema after "Add Column" was pressed on each
FrameSchema ==
  LET first == BuildColumn(FrameDrafts[1], <<>>)
  IN <<first, BuildColumn(FrameDrafts[2], <<first>>)>>

\* the builder holds that schema and no pending input
InitFrame ==
  /\ InitInput
  /\ columns = FrameSchema

NextFrame ==
  \/ setFormTitle(<<"F">>)
  \/ setNewColumnName(<<"Q">>)
  \/ \E t \in {"dropdown", "htmlrender"} : setNewColumnType(t)
  \/ setNewChoiceValue(<<"b">>)
  \/ options = <<>> /\ addChoice
  \/ setTableRows(<<"1">>)
  \/ setTableColumnsRender(<<"1">>)
  \/ setCurrentHeaderInput(<<"k">>)
  \/ addTableHeader
  \/ removeTableHeader(0)
  \/ \E v \in {<<>>, <<"y">>} : setTableCell(0, 0, v)
  \/ Len(columns) < Len(FrameSchema) + MaxPayload /\ addColumn
  \/ Len(inFlight) < MaxSaves /\ submitForm
  \/ \E i \in 1..MaxSaves : addRejected(i)

SpecFrame == InitFrame /\ [][NextFrame]_vars

\* C29: no step of the builder, a save that fails among them, changes,
\* moves or removes a field of the schema: the schema stays as it is or gets
\* one field more at its end
C29_SchemaOnlyGrows ==
  [][/\ Len(columns') \in {Len(columns), Len(columns) + 1}
     /\ \A i \in 1..Len(columns) : columns'[i] = columns[i]]_vars

\* the dropdown field of order 1 still stands before the htmlrender field
\* of order 0, with its option "a", the other with its header "h" and its
\* cell "x", after a third field was added with the header "k" and the cell
\* "y", an option "b" is pending and a save was sent
C29_Witness ==
  /\ Len(columns) = 3
  /\ columns[1] = FrameSchema[1]
  /\ columns[2] = FrameSchema[2]
  /\ columns[1].order > columns[2].order
  /\ columns[3].type = "htmlrender"
  /\ Len(columns[3].tableColumnDefs) = 1
  /\ columns[3].tableColumnDefs[1].name = <<"k">>
  /\ columns[3].tableData = << << <<"y">> >> >>
  /\ options = << <<"b">> >>
  /\ Len(inFlight) = 1

-----------------------------------------------------------------------------
(* Refresh after a save: the web part is mounted, the author opens the     *)
(* builder, types a title and presses "Submit"; the list stores the form   *)
(* and answers every load, and the answers come in whatever order the      *)
(* network hands them over. No request fails here.                         *)

RefreshTitles == {<<"F">>, <<"G">>}

InitRefresh ==
  /\ InitInput
  /\ columns \in SchemasOfLength(1)

NextRefresh ==
  \/ onNewFormClick
  \/ \E v \in RefreshTitles : setFormTitle(v)
  \/ Len(inFlight) + Len(items) < MaxSaves /\ submitForm
  \/ \E i \in 1..MaxSaves : addResolved(i)
  \/ \E i \in 1..(MaxSaves + 1) : listAnswered(i)
  \/ \E i \in 1..(MaxSaves + 1) : loadItemsResolved(i)

SpecRefresh == InitRefresh /\ [][NextRefresh]_vars

\* C30: when no load of the browse list is in flight any more, the browse
\* list has an entry for every form that was saved
C30_RefreshShowsSavedForm ==
  loads = <<>> =>
    \A k \in 1..Len(items) : \E n \in 1..Len(config) : config[n].Id = items[k].Id

=============================================================================
